---- MODULE Spec2Model ----
(***************************************************************************)
(* Model of the YouTube Webhook admin UI: the HTTP API client              *)
(* (lib/api-client.ts), the credential store and provider                  *)
(* (lib/storage.ts, contexts/APIContext.tsx, components/APIConfigForm.tsx)  *)
(* and the list pages with their query cache and mutations                 *)
(* (pages/*.tsx, App.tsx).                                                 *)
(*                                                                         *)
(* Strings the code inspects are sequences of tokens: a token is a piece   *)
(* of text the code never looks inside, so trim(), startsWith() and        *)
(* includes() are computed on the token sequence as the code computes      *)
(* them on the characters.                                                 *)
(***************************************************************************)
EXTENDS Integers, Sequences, FiniteSets, TLC

VARIABLES
    \* ---- APIClient.request: one call of the client ----
    reqPc,        \* "ready": fetch not yet issued, "done": the promise settled
    response,     \* what fetch() produces for this call
    result,       \* how the promise returned by request() settled
    \* ---- credential form, store, provider and client singleton ----
    formBaseURL,        \* APIConfigForm state baseURL
    formApiKey,         \* APIConfigForm state apiKey
    formError,          \* APIConfigForm state error
    sessionStorage,     \* the tab's sessionStorage, by storage key
    config,             \* APIProvider state config
    isConfigured,       \* APIProvider state isConfigured
    mounted,            \* the APIProvider mount effect has run
    apiClientInstance,  \* the module-level client singleton
    accessed,           \* outcome of the latest getAPIClient() call
    sentKey,            \* X-API-Key header of the latest request sent
    \* ---- a list page, the query cache and the server behind it ----
    server,             \* the rows the API server holds, by id
    pageMounted,        \* the list page is rendered
    filters,            \* page state filters
    searchTitle,        \* page state searchTitle
    showCreateForm,     \* page state showCreateForm
    currentPage,        \* page state currentPage
    cache,              \* queryClient: the entry of each query key
    mutations,          \* the mutations started so far, with their requests
    \* ---- single calls of the pure parts of the client and the store ----
    fnPc,               \* "ready": the call not yet made, "done": it returned
    jsonData,           \* request(): what response.json() resolved with
    normalized,         \* request(): the value it returns for jsonData
    callBaseURL,        \* config.baseURL the client was constructed with
    callEndpoint,       \* the path of the list operation called
    callParams,         \* the filters passed to the list operation
    callUrl,            \* request(): url, as handed to fetch
    storageFault,       \* sessionStorage.getItem throws (storage is blocked)
    loaded,             \* outcome of the loadAPIConfig() call
    \* ---- the Videos page and its channel lookup query ----
    videosMounted,      \* the Videos page is rendered, its list loaded
    channels,           \* page state channels, by channel id
    lookups,            \* the runs of the lookup queryFn started so far
    lookupQuery,        \* queryClient: the entry of ['channels', data.items]
    \* ---- a job-monitoring page (Jobs, SponsorDetectionJobs) ----
    jobsPage,           \* which of the two pages the user works with
    jobsMounted,        \* the page is rendered
    statusFilter,       \* page state statusFilter
    jobFilters,         \* page state filters (its status field)
    jobRows,            \* the status of each job on the server
    jobsQuery,          \* queryClient: the entry of each [resource, filters]
    timerRequests,      \* list requests the auto-refresh timers have issued
    intervals,          \* auto-refresh intervals (10 s) elapsed
    awayIntervals,      \* those of them that elapsed after navigation away
    \* ---- pages/Channels.tsx: the detail content of expanded rows ----
    expanded,            \* DataTable state expanded: the rows shown expanded
    enrichments,         \* page state enrichments, by channel
    loadingEnrichments,  \* page state loadingEnrichments
    sponsors,            \* page state sponsors, by channel
    loadingSponsors,     \* page state loadingSponsors
    enrichQueued,        \* channels with an enrichMutation in flight
    enrichmentRequests,  \* getChannelEnrichment calls of this page view, by channel
    sponsorsRequests,    \* getChannelSponsors calls of this page view, by channel
    expansions,          \* times each row was expanded in this page view
    evictions,           \* times enrichMutation.onSuccess ran in this page view
    \* ---- components/ui/data-table.tsx: column visibility ----
    tableMounted,             \* a DataTable with the storage key is rendered
    initialColumnVisibility,  \* prop initialColumnVisibility
    columnVisibility,         \* DataTable state columnVisibility
    localStorage,             \* localStorage item table-visibility-<storageKey>
    chosen,                   \* what the user last chose for each column
    \* ---- the query cache across credentials ----
    origin,      \* for each list query, the credential its data was fetched with
    inFlightAs,  \* for each list query, the credential its request in flight carries
    \* ---- a list page over a list longer than one page ----
    serverTotal,   \* number of rows the server holds
    listResult,    \* data of the observed list query: items on the page, total
    listFetching   \* a list request for the observed key is in flight

reqVars == <<reqPc, response, result>>

cfgVars == <<formBaseURL, formApiKey, formError, sessionStorage, config,
             isConfigured, mounted, apiClientInstance, accessed, sentKey>>

pageVars == <<server, pageMounted, filters, searchTitle, showCreateForm,
              currentPage, cache, mutations>>

fnVars == <<fnPc, jsonData, normalized, callBaseURL, callEndpoint, callParams,
            callUrl, storageFault, loaded>>

lookupVars == <<videosMounted, channels, lookups, lookupQuery>>

jobVars == <<jobsPage, jobsMounted, statusFilter, jobFilters, jobRows, jobsQuery,
             timerRequests, intervals, awayIntervals>>

detailVars == <<expanded, enrichments, loadingEnrichments, sponsors,
                loadingSponsors, enrichQueued, enrichmentRequests,
                sponsorsRequests, expansions, evictions>>

tableVars == <<tableMounted, initialColumnVisibility, columnVisibility,
               localStorage, chosen>>

sessionVars == <<origin, inFlightAs>>

pagerVars == <<serverTotal, listResult, listFetching>>

cacheVars == <<sessionVars, pagerVars>>

widgetVars == <<detailVars, tableVars, cacheVars>>

vars == <<reqVars, cfgVars, pageVars, fnVars, lookupVars, jobVars, widgetVars>>

(***************************************************************************)
(* Bounds                                                                  *)
(***************************************************************************)
MaxBodyLen == 2
MaxMutations == 2
MaxNesting == 1
MaxParams == 2
MaxPage == 2
MaxLookups == 2
MaxIntervals == 2
MaxExpansions == 2
MaxEvictions == 1
MaxTotal == 22

(***************************************************************************)
(* JSON values, as JSON.parse produces them                                *)
(***************************************************************************)
JNull == [t |-> "null"]
JUndefined == [t |-> "undefined"]
JStr(s) == [t |-> "str", s |-> s]
JBool(b) == [t |-> "bool", b |-> b]
JNum(n) == [t |-> "num", n |-> n]
JArr(a) == [t |-> "arr", a |-> a]
JObj(o) == [t |-> "obj", o |-> o]

\* typeof obj === 'object' && obj !== null && 'String' in obj && 'Valid' in obj
\* && typeof obj.String === 'string' && typeof obj.Valid === 'boolean'
isGoNullString(obj) ==
    /\ obj.t = "obj"
    /\ "String" \in DOMAIN obj.o
    /\ "Valid" \in DOMAIN obj.o
    /\ obj.o["String"].t = "str"
    /\ obj.o["Valid"].t = "bool"

isGoNullTime(obj) ==
    /\ obj.t = "obj"
    /\ "Time" \in DOMAIN obj.o
    /\ "Valid" \in DOMAIN obj.o
    /\ obj.o["Time"].t = "str"
    /\ obj.o["Valid"].t = "bool"

RECURSIVE transformGoNullTypes(_)
transformGoNullTypes(obj) ==
    IF obj.t \in {"null", "undefined"} THEN obj
    ELSE IF obj.t = "arr"
        THEN JArr([i \in DOMAIN obj.a |-> transformGoNullTypes(obj.a[i])])
    ELSE IF obj.t = "obj"
        THEN IF isGoNullString(obj)
                THEN (IF obj.o["Valid"].b THEN obj.o["String"] ELSE JNull)
             ELSE IF isGoNullTime(obj)
                THEN (IF obj.o["Valid"].b THEN obj.o["Time"] ELSE JNull)
             ELSE JObj([k \in DOMAIN obj.o |-> transformGoNullTypes(obj.o[k])])
    ELSE obj

\* the documents a server can send, up to MaxNesting levels of containers
\* around a flat value: scalars, and objects over the keys the client looks at
LeafValues == {JNull, JStr("x"), JStr(""), JBool(TRUE), JBool(FALSE), JNum(1)}
WrapperKeys == {"String", "Valid", "Time", "Extra"}
FlatObjects == {JObj(o) : o \in UNION {[K -> LeafValues] : K \in SUBSET WrapperKeys}}

\* one more level: an array, an object field, or the String field of an object
Nest(V) ==
    V \cup {JArr(<<v>>) : v \in V}
      \cup {JObj([k \in {"data"} |-> v]) : v \in V}
      \cup {JObj([k \in {"String", "Valid"} |->
                    IF k = "String" THEN v ELSE JBool(TRUE)]) : v \in V}

RECURSIVE JsonValues(_)
JsonValues(d) == IF d = 0 THEN LeafValues \cup FlatObjects ELSE Nest(JsonValues(d - 1))

(***************************************************************************)
(* Response bodies and headers                                             *)
(***************************************************************************)
WS == " "
HtmlTokens == {"<!DOCTYPE", "<!doctype", "<html"}
JsonTokens == {"{\"detail\":\"Unauthorized\"}", "{}", "null", "{\"items\":[..]}"}
BodyTokens == {WS, "Server Error"} \cup HtmlTokens \cup JsonTokens

\* the document a JSON token stands for
JsonDoc(tok) ==
    CASE tok = "{\"detail\":\"Unauthorized\"}" ->
            JObj([k \in {"detail"} |-> JStr("Unauthorized")])
      [] tok = "{}" -> JObj(<<>>)
      [] tok = "null" -> JNull
      [] OTHER ->
            JObj([k \in {"items", "total"} |->
                IF k = "total" THEN JNum(1)
                ELSE JArr(<<JObj([f \in {"id", "title", "deleted_at"} |->
                        CASE f = "id" -> JNum(1)
                          [] f = "title" ->
                                JObj([g \in {"String", "Valid"} |->
                                    IF g = "String" THEN JStr("x") ELSE JBool(TRUE)])
                          [] OTHER ->
                                JObj([g \in {"Time", "Valid"} |->
                                    IF g = "Time" THEN JStr("") ELSE JBool(FALSE)])])>>)])

SeqsUpTo(S, n) == UNION {[1..k -> S] : k \in 0..n}

Bodies == SeqsUpTo(BodyTokens, MaxBodyLen)

\* content-type header values; <<>> is a response without the header
ContentTypes ==
    { <<>>,
      <<"application/json">>,
      <<"application/json", "; charset=utf-8">>,
      <<"text/html">>,
      <<"text/html", "; charset=utf-8">>,
      <<"text/plain">> }

Statuses == {200, 204, 401, 502}

StatusStr(s) ==
    CASE s = 200 -> "200" [] s = 204 -> "204" [] s = 401 -> "401" [] OTHER -> "502"

\* response.statusText, the reason phrase the server sent with the status
StatusText(s) ==
    CASE s = 200 -> "OK" [] s = 204 -> "No Content"
      [] s = 401 -> "Unauthorized" [] OTHER -> "Bad Gateway"

NoStatus == 0

\* fetch() either resolves with a response or rejects
NetOutcomes == {"response", "Error", "nonError"}

Responses ==
    [net : {"response"}, status : Statuses, contentType : ContentTypes, body : Bodies]
    \cup [net : {"Error", "nonError"}, status : {NoStatus},
          contentType : {<<>>}, body : {<<>>}]

\* String.prototype.trim
RECURSIVE TrimStart(_)
TrimStart(s) == IF s # <<>> /\ Head(s) = WS THEN TrimStart(Tail(s)) ELSE s

RECURSIVE TrimEnd(_)
TrimEnd(s) ==
    IF s # <<>> /\ s[Len(s)] = WS THEN TrimEnd(SubSeq(s, 1, Len(s) - 1)) ELSE s

Trim(s) == TrimEnd(TrimStart(s))

StartsWith(s, tok) == s # <<>> /\ Head(s) = tok

\* contentType?.includes(needle): false for a missing header
Includes(ct, needle) == \E i \in DOMAIN ct : ct[i] = needle

\* response.ok
ResponseOk(r) == r.status >= 200 /\ r.status <= 299

\* response.json(): JSON.parse of the body; whitespace around the value is
\* allowed, anything else is a SyntaxError whose message quotes the text
ParseJSON(body) ==
    LET t == Trim(body) IN
    IF Len(t) = 1 /\ t[1] \in JsonTokens
        THEN [ok |-> TRUE, value |-> JsonDoc(t[1]), message |-> <<>>]
    ELSE IF t = <<>>
        THEN [ok |-> FALSE, value |-> JUndefined,
              message |-> <<"Unexpected end of JSON input">>]
    ELSE [ok |-> FALSE, value |-> JUndefined,
          message |-> <<"Unexpected token">> \o
                      (IF t[1] \in JsonTokens THEN <<TrimStart(Tail(t))[1]>>
                       ELSE <<t[1]>>)
                      \o <<"is not valid JSON">>]

(***************************************************************************)
(* APIClient.request                                                       *)
(***************************************************************************)
\* new APIClientError(message, status?, detail?)
APIClientError(message, status, detail) ==
    [kind |-> "APIClientError", message |-> message, status |-> status,
     detail |-> detail, value |-> JUndefined]

\* an exception that is not an APIClientError leaving request()
RawError(message) ==
    [kind |-> "Error", message |-> message, status |-> NoStatus,
     detail |-> <<>>, value |-> JUndefined]

Resolved(value) ==
    [kind |-> "resolved", message |-> <<>>, status |-> NoStatus,
     detail |-> <<>>, value |-> value]

\* catch (error): an APIClientError is rethrown, any other Error is wrapped
\* with its message only, anything else becomes 'An unknown error occurred'
RequestCatchRethrowsRaw(thrown) ==
    IF thrown.kind = "APIClientError" THEN thrown
    ELSE RawError(thrown.message)

RequestCatch(thrown) ==
    IF thrown.kind = "APIClientError" THEN thrown
    ELSE IF thrown.kind = "Error" THEN APIClientError(thrown.message, NoStatus, <<>>)
    ELSE APIClientError(<<"An unknown error occurred">>, NoStatus, <<>>)

\* if (!response.ok) { ... }: the value thrown inside the try block
ErrorResponse(r, isJson) ==
    IF isJson
        THEN LET parsed == ParseJSON(r.body) IN
             IF ~parsed.ok THEN RawError(parsed.message)
             ELSE IF parsed.value.t = "null"
                THEN RawError(<<"Cannot read properties of null (reading 'detail')">>)
             ELSE IF parsed.value.t = "obj" /\ "detail" \in DOMAIN parsed.value.o
                     /\ parsed.value.o["detail"].t = "str"
                     /\ parsed.value.o["detail"].s # ""
                THEN APIClientError(<<parsed.value.o["detail"].s>>, r.status,
                                    <<parsed.value.o["detail"].s>>)
             ELSE APIClientError(<<"API request failed">>, r.status, <<>>)
    ELSE LET errorText == r.body
             isHtml == \/ StartsWith(Trim(errorText), "<!DOCTYPE")
                       \/ StartsWith(Trim(errorText), "<html")
                       \/ Includes(r.contentType, "text/html")
             cleanError ==
                IF isHtml
                    THEN <<"Server error (", StatusStr(r.status), " ",
                           StatusText(r.status), "). The API may be unavailable.">>
                ELSE errorText
         IN APIClientError(
                IF cleanError # <<>> THEN cleanError
                ELSE <<"HTTP ", StatusStr(r.status), ": ", StatusText(r.status)>>,
                r.status, <<>>)

\* the rest of the try block, reached when response.ok
SuccessResponseNoJsonCheck(r, isJson) ==
    IF r.status = 204 THEN Resolved(JUndefined)
    ELSE LET parsed == ParseJSON(r.body) IN
         IF ~parsed.ok THEN RawError(parsed.message)
         ELSE Resolved(transformGoNullTypes(parsed.value))

\* the try block without the 204 branch
SuccessResponseNo204(r, isJson) ==
    IF ~isJson
        THEN APIClientError(<<"Expected JSON response from API">>, r.status, <<>>)
    ELSE LET parsed == ParseJSON(r.body) IN
         IF ~parsed.ok THEN RawError(parsed.message)
         ELSE Resolved(transformGoNullTypes(parsed.value))

SuccessResponse(r, isJson) ==
    IF r.status = 204 THEN Resolved(JUndefined)
    ELSE IF ~isJson
        THEN APIClientError(<<"Expected JSON response from API">>, r.status, <<>>)
    ELSE LET parsed == ParseJSON(r.body) IN
         IF ~parsed.ok THEN RawError(parsed.message)
         ELSE Resolved(transformGoNullTypes(parsed.value))

\* the settlement of the promise returned by request() for one fetch outcome
request(r) ==
    IF r.net = "Error" THEN RequestCatch(RawError(<<"Network error">>))
    ELSE IF r.net = "nonError"
        THEN RequestCatch([kind |-> "thrown", message |-> <<>>, status |-> NoStatus,
                           detail |-> <<>>, value |-> JUndefined])
    ELSE LET isJson == Includes(r.contentType, "application/json")
             settled == IF ~ResponseOk(r) THEN ErrorResponse(r, isJson)
                        ELSE SuccessResponse(r, isJson)
         IN IF settled.kind = "resolved" THEN settled ELSE RequestCatch(settled)

\* const url = `${this.baseURL}${endpoint}`
RequestUrl(client, endpoint) == client.baseURL \o endpoint

(***************************************************************************)
(* APIClient.buildQueryString and the list operations                      *)
(***************************************************************************)
\* filter values: undefined, null, strings, numbers and booleans
ParamStrings == {"", "x", "a b"}
ParamValues ==
    {JUndefined, JNull, JNum(0), JNum(20), JBool(FALSE)}
        \cup {JStr(t) : t \in ParamStrings}
ParamKeys == {"limit", "offset", "title"}

\* Object.entries(params): the own properties in insertion order
IsEntries(es) == \A i, j \in DOMAIN es : i # j => es[i].key # es[j].key
ParamsUpTo(n) ==
    {es \in SeqsUpTo([key : ParamKeys, value : ParamValues], n) : IsEntries(es)}

\* String(value)
StringOf(v) ==
    CASE v.t = "str" -> v.s
      [] v.t = "num" -> (IF v.n = 0 THEN "0" ELSE "20")
      [] v.t = "bool" -> (IF v.b THEN "true" ELSE "false")
      [] v.t = "null" -> "null"
      [] OTHER -> "undefined"

\* application/x-www-form-urlencoded serialization of one name or value
FormEncode(t) == IF t = "a b" THEN "a+b" ELSE t

\* value !== undefined && value !== null && value !== ''
IsSerialized(v) == v.t \notin {"undefined", "null"} /\ v # JStr("")

\* searchParams.toString() of the entries appended so far
RECURSIVE SearchParamsToString(_)
SearchParamsToString(es) ==
    IF es = <<>> THEN <<>>
    ELSE <<FormEncode(Head(es).key), "=", FormEncode(StringOf(Head(es).value))>>
         \o (IF Tail(es) = <<>> THEN <<>> ELSE <<"&">>)
         \o SearchParamsToString(Tail(es))

\* buildQueryString that appends every entry
buildQueryStringKeepsAll(params) ==
    LET queryString == SearchParamsToString(params)
    IN IF queryString # <<>> THEN <<"?">> \o queryString ELSE <<>>

buildQueryString(params) ==
    LET appended == SelectSeq(params, LAMBDA e : IsSerialized(e.value))
        queryString == SearchParamsToString(appended)
    IN IF queryString # <<>> THEN <<"?">> \o queryString ELSE <<>>

\* the paths of the list operations
ListPaths ==
    {<<"/api/v1/webhook-events">>, <<"/api/v1/channels">>, <<"/api/v1/videos">>}

\* getChannels(filters) and its siblings: the endpoint handed to request()
ListEndpoint(path, params) == path \o buildQueryString(params)

\* base URLs a client is constructed with
ClientBaseURLs ==
    { <<"http:", "//h">>, <<"http:", "//h", "/">>,
      <<"https:", "//h", "/api">>, <<"https:", "//h", "/api", "/">> }

NoResult ==
    [kind |-> "pending", message |-> <<>>, status |-> NoStatus,
     detail |-> <<>>, value |-> JUndefined]

(***************************************************************************)
(* Credential form, store (lib/storage.ts), provider and client singleton  *)
(***************************************************************************)
\* text entered in the form: a base URL is a scheme, "//h" (slashes and a
\* host) and an optional trailing slash, possibly surrounded by blanks
BaseURLInputs ==
    { <<>>,
      <<"//h">>,
      <<"http:", "//h">>,
      <<WS, "https:", "//h", "/", WS>>,
      <<"httpx:", "//h">>,
      <<"ftp:", "//h">> }

\* a key is text; "\\uD800" stands for a lone surrogate code unit
ApiKeyInputs == { <<>>, <<WS>>, <<"k1">>, <<WS, "k2">>, <<"\\uD800">> }

DefaultBaseURL == <<"http:", "//h">>

SchemeTokens == {"http:", "https:", "httpx:", "ftp:"}
SpecialSchemes == {"http:", "https:", "ftp:"}

\* new URL(text): blanks around the text are stripped; without a scheme there
\* is nothing to resolve against; a special scheme needs a host
ParseURL(text) ==
    LET t == Trim(text) IN
    IF t = <<>> \/ t[1] \notin SchemeTokens
        THEN [ok |-> FALSE, protocol |-> ""]
    ELSE IF t[1] \in SpecialSchemes /\ (Len(t) < 2 \/ t[2] # "//h")
        THEN [ok |-> FALSE, protocol |-> ""]
    ELSE [ok |-> TRUE, protocol |-> t[1]]

\* url.protocol.startsWith('http')
ProtocolStartsWithHttp(protocol) == protocol \in {"http:", "https:", "httpx:"}

\* a constructor that keeps the base URL as given
StripTrailingSlashNever(b) == b

\* config.baseURL.replace(/\/$/, '')
StripTrailingSlash(b) ==
    IF b # <<>> /\ b[Len(b)] = "/" THEN SubSeq(b, 1, Len(b) - 1) ELSE b

NoConfig == [isNull |-> TRUE, baseURL |-> <<>>, apiKey |-> <<>>]
Config(b, k) == [isNull |-> FALSE, baseURL |-> b, apiKey |-> k]

\* new APIClient(config)
NoClient == [isNull |-> TRUE, baseURL |-> <<>>, apiKey |-> <<>>]
APIClient(c) ==
    [isNull |-> FALSE, baseURL |-> StripTrailingSlash(c.baseURL), apiKey |-> c.apiKey]

\* getAPIClient(): throws while the singleton is null
GetAPIClientUnguarded(instance) == [kind |-> "returned", client |-> instance]

GetAPIClient(instance) ==
    IF instance.isNull THEN [kind |-> "throws", client |-> instance]
    ELSE [kind |-> "returned", client |-> instance]

NotAccessed == [kind |-> "none", client |-> NoClient]

\* isAPIClientInitialized()
isAPIClientInitialized == ~apiClientInstance.isNull

API_BASE_URL == "yt_webhook_api_base_url"
API_KEY == "yt_webhook_api_key"
STORAGE_KEYS == {API_BASE_URL, API_KEY}

\* getItem() of an absent key is null, which every caller treats like ''
NoItem == <<>>
EmptyStorage == [k \in STORAGE_KEYS |-> NoItem]

\* encodeURIComponent throws a URIError on a lone surrogate
EncodeThrows(value) == \E i \in DOMAIN value : value[i] = "\\uD800"

\* btoa(encodeURIComponent(value))
encode(value) == IF value = <<>> THEN <<>> ELSE <<"btoa(">> \o value \o <<")">>

\* decodeURIComponent(atob(value)), '' when that throws
\* "%E0%A4%A" stands for a malformed escape, on which decodeURIComponent throws
Malformed == "%E0%A4%A"

\* atob accepts the text and decodeURIComponent accepts what atob returns
Decodable(value) ==
    /\ Len(value) >= 2 /\ value[1] = "btoa(" /\ value[Len(value)] = ")"
    /\ \A i \in 2..(Len(value) - 1) : value[i] # Malformed

decode(value) ==
    IF Decodable(value) THEN SubSeq(value, 2, Len(value) - 1) ELSE <<>>

\* where sessionStorage.setItem throws (quota exceeded, storage disabled)
StorageFaults == {"none", "first", "second"}

\* saveAPIConfig: the storage after the call and whether it threw
saveAPIConfig(store, c, fault) ==
    IF EncodeThrows(c.baseURL) \/ fault = "first"
        THEN [threw |-> TRUE, store |-> store]
    ELSE LET one == [store EXCEPT ![API_BASE_URL] = encode(c.baseURL)] IN
         IF EncodeThrows(c.apiKey) \/ fault = "second"
            THEN [threw |-> TRUE, store |-> one]
         ELSE [threw |-> FALSE, store |-> [one EXCEPT ![API_KEY] = encode(c.apiKey)]]

\* hasAPIConfig
hasAPIConfig(store) == store[API_BASE_URL] # NoItem /\ store[API_KEY] # NoItem

\* loadAPIConfig
loadAPIConfig(store) ==
    IF store[API_BASE_URL] = NoItem \/ store[API_KEY] = NoItem THEN NoConfig
    ELSE Config(decode(store[API_BASE_URL]), decode(store[API_KEY]))

\* clearAPIConfig
clearAPIConfig(store) == EmptyStorage

\* what sessionStorage can hold under a key: nothing, what saveAPIConfig wrote,
\* or text put there by other code of the origin or by hand
StoredItems ==
    { NoItem, encode(<<"http:", "//h">>), encode(<<"k1">>), encode(<<"k2">>),
      <<"%%%">>, <<"btoa(", Malformed, ")">> }

\* a call of loadAPIConfig(): getItem may throw inside the try block, and the
\* catch turns that into null
loadAPIConfigCall(store, getItemThrows) ==
    IF getItemThrows THEN [threw |-> FALSE, called |-> TRUE, value |-> NoConfig]
    ELSE [threw |-> FALSE, called |-> TRUE, value |-> loadAPIConfig(store)]

\* loadAPIConfig() has not been called
NotLoaded == [threw |-> FALSE, called |-> FALSE, value |-> NoConfig]

(***************************************************************************)
(* A list page (pages/Channels.tsx is the pattern), its query cache        *)
(* (App.tsx queryClient) and the rows on the server                        *)
(***************************************************************************)
Ids == {1, 2}
ITEMS_PER_PAGE == 20

\* queries: { retry: 1 }; mutations are left at the library default
QueryRetry == 1
MutationRetryLikeQueries == QueryRetry
MutationRetry == 0

\* a row on the server: absent, or present as created ("v1") or as updated ("v2")
RowStates == {"absent", "v1", "v2"}
RowTitle(id) == IF id = 1 THEN "Acme" ELSE "Other"
Titles == {"", "Acme"}

\* filters: { limit, offset } and title when a search title was entered
Filters(title) == [limit |-> ITEMS_PER_PAGE, offset |-> 0, title |-> title]
\* the offsets of the pages 1..MaxPage
Offsets == {(p - 1) * ITEMS_PER_PAGE : p \in 1..MaxPage}
FilterKeys == {[Filters(t) EXCEPT !.offset = o] : t \in Titles, o \in Offsets}

NoData == [i \in Ids |-> "nodata"]

\* a query that was never fetched has no data and is stale
NewQuery == [data |-> NoData, stale |-> TRUE, state |-> "idle", failureCount |-> 0]

IsFetching(q) == q.state = "fetching"

\* useQuery on key k: a stale query that is not already in flight is fetched
Observe(c, k) ==
    IF IsFetching(c[k]) \/ ~c[k].stale THEN c
    ELSE [c EXCEPT ![k] = [@ EXCEPT !.state = "fetching", !.failureCount = 0]]

\* queryClient.invalidateQueries({ queryKey: [resource] }): every query of the
\* resource is marked invalid; the observed one is fetched again, a fetch in
\* flight for it being cancelled and restarted
invalidateQueriesNothing(c, active) == c

invalidateQueries(c, active) ==
    [k \in FilterKeys |->
        IF k \in active
            THEN [c[k] EXCEPT !.stale = TRUE, !.state = "fetching", !.failureCount = 0]
        ELSE [c[k] EXCEPT !.stale = TRUE]]

\* the rows the table shows: the cached page of the observed key
Displayed ==
    IF ~pageMounted THEN {}
    ELSE {i \in Ids : /\ cache[filters].data[i] \in {"v1", "v2"}
                      /\ (filters.title = "" \/ filters.title = RowTitle(i))
                      /\ filters.offset = 0}

\* the keys a mounted page observes
ActiveKeys == IF pageMounted THEN {filters} ELSE {}

\* a call of mutation.mutate(): the request is sent once right away
NewMutation(kind, id, arg) ==
    [kind |-> kind, id |-> id, arg |-> arg, state |-> "pending",
     sent |-> 1, failureCount |-> 0]

\* whether the server accepts the request of mutation m
ServerAccepts(m) ==
    IF m.kind = "create" THEN server[m.id] = "absent" ELSE server[m.id] # "absent"

\* the rows after the server has carried out mutation m
ServerApply(m) ==
    [server EXCEPT ![m.id] =
        CASE m.kind = "create" -> "v1"
          [] m.kind = "update" -> m.arg
          [] OTHER -> "absent"]

\* number of DELETE requests sent so far for row id
DeleteRequests(id) ==
    LET idx == {i \in DOMAIN mutations :
                    mutations[i].kind = "delete" /\ mutations[i].id = id}
        RECURSIVE Sum(_)
        Sum(S) == IF S = {} THEN 0
                  ELSE LET i == CHOOSE j \in S : TRUE
                       IN mutations[i].sent + Sum(S \ {i})
    IN Sum(idx)

(***************************************************************************)
(* The Videos page: the lookup of the channels of the listed videos        *)
(***************************************************************************)
\* a run of the lookup queryFn: the requests are sent, the server answers
\* them (phase "read", snapshot is what it answered), the run ends ("settled").
\* cancelled: the query dropped the run for a newer one; orphan: the page
\* instance whose setChannels the run holds is gone
NewLookup == [snapshot |-> NoData, phase |-> "sent", cancelled |-> FALSE,
              orphan |-> FALSE]

StartLookup(ls) == Append(ls, NewLookup)

\* the query cancels its fetch promise; queryFn takes no signal and runs on
CancelLookups(ls) ==
    [i \in DOMAIN ls |->
        IF ls[i].phase # "settled" THEN [ls[i] EXCEPT !.cancelled = TRUE] ELSE ls[i]]

OrphanLookups(ls) == [i \in DOMAIN ls |-> [ls[i] EXCEPT !.orphan = TRUE]]

\* invalidateQueries({ queryKey: ['channels'] }) also matches the lookup key
\* ['channels', data.items]: an observed entry is cancelled and fetched again
InvalidateLookups(ls, active) == IF active THEN StartLookup(CancelLookups(ls)) ELSE ls

InvalidateLookupQuery(q, active) ==
    IF active THEN [q EXCEPT !.stale = TRUE, !.state = "fetching", !.failureCount = 0]
    ELSE [q EXCEPT !.stale = TRUE]

PendingMutations ==
    Cardinality({i \in DOMAIN mutations : mutations[i].state = "pending"})

(***************************************************************************)
(* Expanded rows of the Channels table and their detail content            *)
(***************************************************************************)
\* enrichments[id]: undefined (no entry), null (the request failed) or loaded;
\* sponsors[id]: undefined, the items of the response, or [] after a failure
EnrichmentStates == {"undefined", "null", "loaded"}
SponsorsStates == {"undefined", "items", "empty"}

\* renderExpandedRow calling fetchEnrichment whatever the page holds
StartedEnrichmentsUncached(rows, enr, loading) == {i \in rows : i \notin loading}

\* the rows for which rendering the expanded rows sends getChannelEnrichment:
\* renderExpandedRow calls fetchEnrichment if (!enrichments[id] && !loading),
\* which returns early if (enrichments[id] !== undefined || loading)
StartedEnrichments(rows, enr, loading) ==
    {i \in rows : /\ enr[i] \in {"undefined", "null"} /\ i \notin loading
                  /\ ~(enr[i] # "undefined" \/ i \in loading)}

\* the same for getChannelSponsors; [] is not falsy
StartedSponsors(rows, spo, loading) ==
    {i \in rows : /\ spo[i] = "undefined" /\ i \notin loading
                  /\ ~(spo[i] # "undefined" \/ i \in loading)}

\* the page renders with these rows expanded and this state: the fetches the
\* render starts are sent and recorded as loading
RenderExpandedRows(rows, enr, loadingE, spo, loadingS) ==
    LET e == StartedEnrichments(rows, enr, loadingE)
        p == StartedSponsors(rows, spo, loadingS)
    IN  /\ expanded' = rows
        /\ enrichments' = enr
        /\ sponsors' = spo
        /\ loadingEnrichments' = loadingE \cup e
        /\ loadingSponsors' = loadingS \cup p
        /\ enrichmentRequests' =
                [i \in Ids |-> enrichmentRequests[i] + IF i \in e THEN 1 ELSE 0]
        /\ sponsorsRequests' =
                [i \in Ids |-> sponsorsRequests[i] + IF i \in p THEN 1 ELSE 0]

(***************************************************************************)
(* DataTable column visibility (components/ui/data-table.tsx)              *)
(***************************************************************************)
\* the columns that can be hidden
Columns == {"title", "created_at"}

\* VisibilityState: a column is hidden when its entry is false and visible
\* when its entry is true or missing ("unset")
VisibilityStates == [Columns -> {"true", "false", "unset"}]
NoVisibility == [c \in Columns |-> "unset"]

\* column.getIsVisible(): columnVisibility[id] ?? true
IsVisible(visibility, c) == visibility[c] # "false"

\* what localStorage holds under the table's key: nothing (getItem gives
\* null), or a text: the JSON text of a visibility state, or "undefined"
NoTableItem == [kind |-> "none", value |-> NoVisibility]
JsonText(visibility) == [kind |-> "json", value |-> visibility]
UndefinedText == [kind |-> "undefined", value |-> NoVisibility]

\* what the table hands to onColumnVisibilityChange for
\* column.toggleVisibility(value): the updater function
\* old => ({ ...old, [column.id]: value }), never the new state itself
ToggleUpdater(c, value) ==
    [kind |-> "function", column |-> c, value |-> value, state |-> NoVisibility]

\* React setState with a value or with an updater function
SetState(old, arg) ==
    IF arg.kind = "function" THEN [old EXCEPT ![arg.column] = arg.value]
    ELSE arg.state

\* localStorage.setItem(key, JSON.stringify(arg)): JSON.stringify of a
\* function is undefined, which setItem stores as the text "undefined"
SetItemStringified(arg) ==
    IF arg.kind = "function" THEN UndefinedText ELSE JsonText(arg.state)

\* JSON.parse of a stored text: "undefined" is not JSON
ParseThrows(item) == item.kind = "undefined"

\* loadColumnVisibility(): a stored text that parses wins over the caller's
\* map; without one, or when parsing throws, the caller's map is the state
loadColumnVisibility(item, initial) ==
    IF item.kind # "none" /\ ~ParseThrows(item) THEN item.value ELSE initial

(***************************************************************************)
(* The job-monitoring pages (pages/Jobs.tsx, pages/SponsorDetectionJobs.tsx) *)
(***************************************************************************)
JobPages == {"Jobs", "SponsorDetectionJobs"}

\* a job is waiting or running ("pending") or has ended ("completed")
JobStatuses == {"pending", "completed"}
NonTerminal == {"pending"}

\* the options of the status select; "" is all statuses
StatusOptions == {"", "pending", "completed"}

\* a list query that was never fetched
NewJobsQuery == [data |-> NoData, fetching |-> FALSE]

\* what the server lists for status filter k: the jobs of another status are
\* not part of the page
LoadedRows(k) ==
    [i \in Ids |-> IF k = "" \/ jobRows[i] = k THEN jobRows[i] ELSE "none"]

\* data.items of the page
RowsShown == IF jobsMounted THEN jobsQuery[jobFilters].data ELSE NoData

HasNonTerminalRow == \E i \in Ids : RowsShown[i] \in NonTerminal

\* const shouldAutoRefresh = statusFilter === 'pending' || statusFilter === ''
\* (Jobs.tsx also lists 'processing', a status this model folds into pending)
shouldAutoRefresh == statusFilter \in {"pending", ""}

\* SponsorDetectionJobs.tsx: data.items.some((job) => job.status === 'pending')
hasPendingJobs == \E i \in Ids : RowsShown[i] = "pending"

\* useQuery refetchInterval: shouldAutoRefresh ? AUTO_REFRESH_INTERVAL : false
QueryTimerOn == jobsMounted /\ shouldAutoRefresh

\* the effect's interval as it would be without clearInterval in its cleanup
EffectTimerOnNoCleanup ==
    /\ shouldAutoRefresh
    /\ (jobsPage = "Jobs" \/ hasPendingJobs)

\* the setInterval of the auto-refresh effect
EffectTimerOn ==
    /\ jobsMounted
    /\ shouldAutoRefresh
    /\ (jobsPage = "Jobs" \/ hasPendingJobs)

\* the page renders with filters new instead of old: the entry of a changed
\* key is fetched unless a fetch is in flight or its data is fresh
ObserveJobs(c, old, new, fresh) ==
    IF new = old \/ c[new].fetching \/ (c[new].data # NoData /\ fresh) THEN c
    ELSE [c EXCEPT ![new].fetching = TRUE]

\* list requests sent when the interval (10 s) elapses. The query's own timer
\* sends one unless a fetch is in flight; refetch() of the effect cancels a
\* fetch in flight and sends a new one, except that a fetch of an entry
\* without data is joined. both: the query's timer fires before the effect's
TimerRequests(both) ==
    LET q == jobsQuery[jobFilters]
        byQuery == IF both /\ ~q.fetching THEN 1 ELSE 0
        byEffect == IF (q.fetching \/ both) /\ q.data = NoData THEN 0 ELSE 1
    IN  IF EffectTimerOn THEN byQuery + byEffect
        ELSE IF QueryTimerOn /\ ~q.fetching THEN 1
        ELSE 0

(***************************************************************************)
(* Initial states of the parts                                             *)
(***************************************************************************)
ReqIdle ==
    /\ reqPc = "idle"
    /\ response = [net |-> "Error", status |-> NoStatus,
                   contentType |-> <<>>, body |-> <<>>]
    /\ result = NoResult

\* a freshly opened tab: empty storage, the module just evaluated
CfgInit ==
    /\ formBaseURL = DefaultBaseURL
    /\ formApiKey = <<>>
    /\ formError = <<>>
    /\ sessionStorage = EmptyStorage
    /\ config = NoConfig
    /\ isConfigured = FALSE
    /\ mounted = FALSE
    /\ apiClientInstance = NoClient
    /\ accessed = NotAccessed
    /\ sentKey = <<>>

\* the shell after a credential was entered: what SpecCfg reaches by LoadConfig,
\* SetApiKey and HandleSubmit
CfgConfigured ==
    LET c == Config(DefaultBaseURL, <<"k1">>) IN
    /\ formBaseURL = DefaultBaseURL
    /\ formApiKey = <<>>
    /\ formError = <<>>
    /\ sessionStorage = saveAPIConfig(EmptyStorage, c, "none").store
    /\ config = c
    /\ isConfigured = TRUE
    /\ mounted = TRUE
    /\ apiClientInstance = APIClient(c)
    /\ accessed = NotAccessed
    /\ sentKey = <<>>

PageIdle ==
    /\ server = [i \in Ids |-> "absent"]
    /\ pageMounted = FALSE
    /\ filters = Filters("")
    /\ searchTitle = ""
    /\ showCreateForm = FALSE
    /\ currentPage = 1
    /\ cache = [k \in FilterKeys |-> NewQuery]
    /\ mutations = <<>>

\* the page is not rendered yet, the cache is empty, the server holds row 1
PageInit ==
    /\ server = [i \in Ids |-> IF i = 1 THEN "v1" ELSE "absent"]
    /\ pageMounted = FALSE
    /\ filters = Filters("")
    /\ searchTitle = ""
    /\ showCreateForm = FALSE
    /\ currentPage = 1
    /\ cache = [k \in FilterKeys |-> NewQuery]
    /\ mutations = <<>>

\* no call of the pure parts is under way
NormIdle == jsonData = JUndefined /\ normalized = JUndefined

UrlIdle ==
    /\ callBaseURL = <<>>
    /\ callEndpoint = <<>>
    /\ callParams = <<>>
    /\ callUrl = <<>>

LoadIdle == storageFault = FALSE /\ loaded = NotLoaded

FnIdle == fnPc = "idle" /\ NormIdle /\ UrlIdle /\ LoadIdle

\* no row was expanded and no detail content was requested
DetailIdle ==
    /\ expanded = {}
    /\ enrichments = [i \in Ids |-> "undefined"]
    /\ loadingEnrichments = {}
    /\ sponsors = [i \in Ids |-> "undefined"]
    /\ loadingSponsors = {}
    /\ enrichQueued = {}
    /\ enrichmentRequests = [i \in Ids |-> 0]
    /\ sponsorsRequests = [i \in Ids |-> 0]
    /\ expansions = [i \in Ids |-> 0]
    /\ evictions = [i \in Ids |-> 0]

\* no table is rendered, nothing is stored, the user chose nothing
TableIdle ==
    /\ tableMounted = FALSE
    /\ initialColumnVisibility = NoVisibility
    /\ columnVisibility = NoVisibility
    /\ localStorage = NoTableItem
    /\ chosen = NoVisibility

\* no list data was fetched
SessionIdle ==
    /\ origin = [k \in FilterKeys |-> NoConfig]
    /\ inFlightAs = [k \in FilterKeys |-> NoConfig]

\* no list was requested
NoListResult == [loaded |-> FALSE, items |-> 0, total |-> 0]

PagerIdle ==
    /\ serverTotal = 0
    /\ listResult = NoListResult
    /\ listFetching = FALSE

WidgetIdle == DetailIdle /\ TableIdle /\ SessionIdle /\ PagerIdle

\* the Videos page was never opened
LookupIdle ==
    /\ videosMounted = FALSE
    /\ channels = NoData
    /\ lookups = <<>>
    /\ lookupQuery = NewQuery

\* no job-monitoring page was ever opened
JobsIdle ==
    /\ jobsPage = "Jobs"
    /\ jobsMounted = FALSE
    /\ statusFilter = ""
    /\ jobFilters = ""
    /\ jobRows = [i \in Ids |-> "completed"]
    /\ jobsQuery = [k \in StatusOptions |-> NewJobsQuery]
    /\ timerRequests = 0
    /\ intervals = 0
    /\ awayIntervals = 0

OthersIdle == LookupIdle /\ JobsIdle /\ WidgetIdle

(***************************************************************************)
(* One call of APIClient.request                                           *)
(***************************************************************************)
ReqInit ==
    /\ reqPc = "ready"
    /\ response \in Responses
    /\ result = NoResult
    /\ CfgInit
    /\ PageIdle
    /\ FnIdle
    /\ OthersIdle

\* the call settles with what request() computes from the fetch outcome
Request ==
    /\ reqPc = "ready"
    /\ reqPc' = "done"
    /\ result' = request(response)
    /\ UNCHANGED <<response, cfgVars, pageVars, fnVars, lookupVars, jobVars, widgetVars>>

ReqNext == Request

SpecReq == ReqInit /\ [][ReqNext]_vars

(***************************************************************************)
(* The last step of a successful request(): normalizing the parsed body    *)
(***************************************************************************)
NormInit ==
    /\ ReqIdle /\ CfgInit /\ PageIdle
    /\ fnPc = "ready"
    /\ jsonData \in JsonValues(MaxNesting)
    /\ normalized = JUndefined
    /\ UrlIdle /\ LoadIdle /\ OthersIdle

\* return transformGoNullTypes(jsonData)
Normalize ==
    /\ fnPc = "ready"
    /\ fnPc' = "done"
    /\ normalized' = transformGoNullTypes(jsonData)
    /\ UNCHANGED <<jsonData, callBaseURL, callEndpoint, callParams, callUrl,
                   storageFault, loaded, reqVars, cfgVars, pageVars,
                   lookupVars, jobVars, widgetVars>>

NormNext == Normalize

SpecNorm == NormInit /\ [][NormNext]_vars

(***************************************************************************)
(* One call of a list operation on a freshly constructed client            *)
(***************************************************************************)
UrlInit ==
    /\ ReqIdle /\ CfgInit /\ PageIdle
    /\ fnPc = "ready"
    /\ callBaseURL \in ClientBaseURLs
    /\ callEndpoint \in ListPaths
    /\ callParams \in ParamsUpTo(MaxParams)
    /\ callUrl = <<>>
    /\ NormIdle /\ LoadIdle /\ OthersIdle

\* new APIClient({ baseURL, apiKey }).getChannels(filters), up to fetch(url)
ListRequest ==
    /\ fnPc = "ready"
    /\ fnPc' = "done"
    /\ callUrl' = RequestUrl(APIClient(Config(callBaseURL, <<"k1">>)),
                             ListEndpoint(callEndpoint, callParams))
    /\ UNCHANGED <<jsonData, normalized, callBaseURL, callEndpoint, callParams,
                   storageFault, loaded, reqVars, cfgVars, pageVars,
                   lookupVars, jobVars, widgetVars>>

UrlNext == ListRequest

SpecUrl == UrlInit /\ [][UrlNext]_vars

(***************************************************************************)
(* One call of loadAPIConfig() on whatever the storage holds               *)
(***************************************************************************)
LoadInit ==
    /\ ReqIdle /\ PageIdle
    /\ formBaseURL = DefaultBaseURL
    /\ formApiKey = <<>>
    /\ formError = <<>>
    /\ sessionStorage \in [STORAGE_KEYS -> StoredItems]
    /\ config = NoConfig
    /\ isConfigured = FALSE
    /\ mounted = FALSE
    /\ apiClientInstance = NoClient
    /\ accessed = NotAccessed
    /\ sentKey = <<>>
    /\ fnPc = "ready"
    /\ storageFault \in BOOLEAN
    /\ loaded = NotLoaded
    /\ NormIdle /\ UrlIdle /\ OthersIdle

Load ==
    /\ fnPc = "ready"
    /\ fnPc' = "done"
    /\ loaded' = loadAPIConfigCall(sessionStorage, storageFault)
    /\ UNCHANGED <<jsonData, normalized, callBaseURL, callEndpoint, callParams,
                   callUrl, storageFault, reqVars, cfgVars, pageVars,
                   lookupVars, jobVars, widgetVars>>

LoadNext == Load

SpecLoad == LoadInit /\ [][LoadNext]_vars

(***************************************************************************)
(* The credential life cycle                                               *)
(***************************************************************************)
\* APIProvider mount effect: load the stored credential once at startup
\* a mount effect that restores the context and leaves the singleton alone
LoadConfigNoInitialize ==
    /\ ~mounted
    /\ mounted' = TRUE
    /\ LET savedConfig == loadAPIConfig(sessionStorage) IN
       IF hasAPIConfig(sessionStorage) /\ ~savedConfig.isNull
           THEN /\ config' = savedConfig
                /\ isConfigured' = TRUE
                /\ UNCHANGED apiClientInstance
           ELSE UNCHANGED <<config, apiClientInstance, isConfigured>>
    /\ UNCHANGED <<formBaseURL, formApiKey, formError, sessionStorage,
                   accessed, sentKey, reqVars, pageVars, fnVars, lookupVars,
                   jobVars, widgetVars>>

LoadConfig ==
    /\ ~mounted
    /\ mounted' = TRUE
    /\ LET savedConfig == loadAPIConfig(sessionStorage) IN
       IF hasAPIConfig(sessionStorage) /\ ~savedConfig.isNull
           THEN /\ config' = savedConfig
                /\ apiClientInstance' = APIClient(savedConfig)
                /\ isConfigured' = TRUE
           ELSE UNCHANGED <<config, apiClientInstance, isConfigured>>
    /\ UNCHANGED <<formBaseURL, formApiKey, formError, sessionStorage,
                   accessed, sentKey, reqVars, pageVars, fnVars, lookupVars, jobVars, widgetVars>>

\* onChange of the two inputs of the form
SetBaseURL(v) ==
    /\ mounted /\ ~isConfigured
    /\ formBaseURL' = v
    /\ UNCHANGED <<formApiKey, formError, sessionStorage, config, isConfigured,
                   mounted, apiClientInstance, accessed, sentKey, reqVars, pageVars, fnVars, lookupVars, jobVars, widgetVars>>

SetApiKey(v) ==
    /\ mounted /\ ~isConfigured
    /\ formApiKey' = v
    /\ UNCHANGED <<formBaseURL, formError, sessionStorage, config, isConfigured,
                   mounted, apiClientInstance, accessed, sentKey, reqVars, pageVars, fnVars, lookupVars, jobVars, widgetVars>>

\* APIConfigForm.handleSubmit, with APIProvider.configure when the form passes
HandleSubmit(fault) ==
    /\ mounted /\ ~isConfigured
    /\ LET url == ParseURL(formBaseURL)
           newConfig == Config(Trim(formBaseURL), Trim(formApiKey))
           saved == saveAPIConfig(sessionStorage, newConfig, fault)
       IN
       IF Trim(formBaseURL) = <<>>
           THEN /\ formError' = <<"API Base URL is required">>
                /\ UNCHANGED <<formBaseURL, formApiKey, sessionStorage, config,
                               isConfigured, apiClientInstance>>
       ELSE IF Trim(formApiKey) = <<>>
           THEN /\ formError' = <<"API Key is required">>
                /\ UNCHANGED <<formBaseURL, formApiKey, sessionStorage, config,
                               isConfigured, apiClientInstance>>
       ELSE IF ~url.ok \/ ~ProtocolStartsWithHttp(url.protocol)
           THEN /\ formError' = <<"Please enter a valid URL">>
                /\ UNCHANGED <<formBaseURL, formApiKey, sessionStorage, config,
                               isConfigured, apiClientInstance>>
       ELSE IF saved.threw
           \* saveAPIConfig threw: configure stops before setConfig
           THEN /\ formError' = <<>>
                /\ sessionStorage' = saved.store
                /\ UNCHANGED <<formBaseURL, formApiKey, config, isConfigured,
                               apiClientInstance>>
       ELSE /\ formError' = <<>>
            /\ sessionStorage' = saved.store
            /\ config' = newConfig
            /\ apiClientInstance' = APIClient(newConfig)
            /\ isConfigured' = TRUE
            \* the form is unmounted; it starts from its defaults next time
            /\ formBaseURL' = DefaultBaseURL
            /\ formApiKey' = <<>>
    /\ UNCHANGED <<mounted, accessed, sentKey, reqVars, pageVars, fnVars, lookupVars, jobVars, widgetVars>>

\* APIProvider.clearConfig
clearConfig ==
    /\ sessionStorage' = clearAPIConfig(sessionStorage)
    /\ config' = NoConfig
    /\ isConfigured' = FALSE
    /\ UNCHANGED apiClientInstance

\* Layout.handleLogout: disconnect after a confirmation prompt
HandleLogout(accepted) ==
    /\ mounted /\ isConfigured
    /\ IF accepted THEN clearConfig
       ELSE UNCHANGED <<sessionStorage, config, isConfigured, apiClientInstance>>
    /\ UNCHANGED <<formBaseURL, formApiKey, formError, mounted, accessed,
                   sentKey, reqVars, pageVars, fnVars, lookupVars, jobVars, widgetVars>>

\* a rendered page calls getAPIClient() and sends a request with the
\* client's key in the X-API-Key header
PageRequest ==
    /\ mounted /\ isConfigured
    /\ accessed' = GetAPIClient(apiClientInstance)
    /\ sentKey' = IF accessed'.kind = "returned" THEN accessed'.client.apiKey
                  ELSE sentKey
    /\ UNCHANGED <<formBaseURL, formApiKey, formError, sessionStorage, config,
                   isConfigured, mounted, apiClientInstance, reqVars, pageVars, fnVars, lookupVars, jobVars, widgetVars>>

\* any other caller of the exported accessor, at any time
CallGetAPIClient ==
    /\ accessed' = GetAPIClient(apiClientInstance)
    /\ UNCHANGED <<formBaseURL, formApiKey, formError, sessionStorage, config,
                   isConfigured, mounted, apiClientInstance, sentKey, reqVars, pageVars, fnVars, lookupVars, jobVars, widgetVars>>

\* the tab is reloaded: module and component state start over, the tab's
\* sessionStorage is kept
Reload ==
    /\ mounted
    /\ formBaseURL' = DefaultBaseURL
    /\ formApiKey' = <<>>
    /\ formError' = <<>>
    /\ config' = NoConfig
    /\ isConfigured' = FALSE
    /\ mounted' = FALSE
    /\ apiClientInstance' = NoClient
    /\ accessed' = NotAccessed
    /\ sentKey' = <<>>
    /\ UNCHANGED <<sessionStorage, reqVars, pageVars, fnVars, lookupVars, jobVars, widgetVars>>

CfgNext ==
    \/ LoadConfig
    \/ \E v \in BaseURLInputs : SetBaseURL(v)
    \/ \E v \in ApiKeyInputs : SetApiKey(v)
    \/ \E fault \in StorageFaults : HandleSubmit(fault)
    \/ \E accepted \in BOOLEAN : HandleLogout(accepted)
    \/ PageRequest
    \/ CallGetAPIClient
    \/ Reload

\* the application opens in a fresh tab; no request, no list page
CfgSpecInit == ReqIdle /\ CfgInit /\ PageIdle /\ FnIdle /\ OthersIdle

SpecCfg == CfgSpecInit /\ [][CfgNext]_vars

(***************************************************************************)
(* The list page                                                           *)
(***************************************************************************)
\* the page is rendered: its state starts from the defaults and useQuery
\* observes ['channels', filters]
MountPage ==
    /\ ~pageMounted
    /\ pageMounted' = TRUE
    /\ cache' = Observe(cache, filters)
    /\ UNCHANGED <<server, filters, searchTitle, showCreateForm, mutations,
                   currentPage, reqVars, cfgVars, fnVars, lookupVars, jobVars, widgetVars>>

\* navigation to another route: the page and its state are dropped, the
\* cache and the mutations in flight are not
UnmountPage ==
    /\ pageMounted
    /\ pageMounted' = FALSE
    /\ filters' = Filters("")
    /\ searchTitle' = ""
    /\ showCreateForm' = FALSE
    /\ currentPage' = 1
    /\ expanded' = {}
    /\ enrichments' = [i \in Ids |-> "undefined"]
    /\ loadingEnrichments' = {}
    /\ sponsors' = [i \in Ids |-> "undefined"]
    /\ loadingSponsors' = {}
    /\ enrichQueued' = {}
    /\ enrichmentRequests' = [i \in Ids |-> 0]
    /\ sponsorsRequests' = [i \in Ids |-> 0]
    /\ expansions' = [i \in Ids |-> 0]
    /\ evictions' = [i \in Ids |-> 0]
    /\ UNCHANGED <<server, cache, mutations, tableVars, cacheVars,
                   reqVars, cfgVars, fnVars, lookupVars, jobVars>>

\* onChange of the search input
SetSearchTitle(t) ==
    /\ pageMounted
    /\ searchTitle' = t
    /\ UNCHANGED <<server, pageMounted, filters, showCreateForm, cache,
                   mutations, currentPage, reqVars, cfgVars, fnVars, lookupVars, jobVars, widgetVars>>

\* an observer that never looks at the entry of the new filters
ObserveFiltersNever(c, old, new) == c

\* the page renders with new filters: the observer moves to their cache entry
\* when the query key changed, and stays where it is when it did not
ObserveFilters(c, old, new) == IF new = old THEN c ELSE Observe(c, new)

\* handleSearch: a new filter object, observed through the cache
\* a handleSearch that keeps the offset of the page the user is on
HandleSearchKeepsOffset ==
    /\ pageMounted
    /\ filters' = [Filters(searchTitle) EXCEPT !.offset = filters.offset]
    /\ currentPage' = 1
    /\ cache' = ObserveFilters(cache, filters, filters')
    /\ UNCHANGED <<server, pageMounted, searchTitle, showCreateForm, mutations,
                   reqVars, cfgVars, fnVars, lookupVars, jobVars, widgetVars>>

HandleSearch ==
    /\ pageMounted
    /\ filters' = Filters(searchTitle)
    /\ currentPage' = 1
    /\ cache' = ObserveFilters(cache, filters, filters')
    /\ UNCHANGED <<server, pageMounted, searchTitle, showCreateForm, mutations,
                   reqVars, cfgVars, fnVars, lookupVars, jobVars, widgetVars>>

\* handlePageChange: only the offset of the current filters changes
\* a handlePageChange that builds the filters anew
HandlePageChangeDropsFilters(page) ==
    /\ pageMounted
    /\ currentPage' = page
    /\ filters' = [Filters("") EXCEPT !.offset = (page - 1) * ITEMS_PER_PAGE]
    /\ cache' = ObserveFilters(cache, filters, filters')
    /\ UNCHANGED <<server, pageMounted, searchTitle, showCreateForm, mutations,
                   reqVars, cfgVars, fnVars, lookupVars, jobVars, widgetVars>>

HandlePageChange(page) ==
    /\ pageMounted
    /\ currentPage' = page
    /\ filters' = [filters EXCEPT !.offset = (page - 1) * ITEMS_PER_PAGE]
    /\ cache' = ObserveFilters(cache, filters, filters')
    /\ UNCHANGED <<server, pageMounted, searchTitle, showCreateForm, mutations,
                   reqVars, cfgVars, fnVars, lookupVars, jobVars, widgetVars>>

\* the Refresh button: refetch() of the observed query
Refetch ==
    /\ pageMounted
    /\ cache' = [cache EXCEPT ![filters] =
                    [@ EXCEPT !.state = "fetching", !.failureCount = 0]]
    /\ UNCHANGED <<server, pageMounted, filters, searchTitle, showCreateForm,
                   mutations, currentPage, reqVars, cfgVars, fnVars, lookupVars, jobVars, widgetVars>>

\* staleTime (30 s) has elapsed for the data of key k
StaleTimeElapsed(k) ==
    /\ cache[k].data # NoData
    /\ ~cache[k].stale
    /\ cache' = [cache EXCEPT ![k].stale = TRUE]
    /\ UNCHANGED <<server, pageMounted, filters, searchTitle, showCreateForm,
                   mutations, currentPage, reqVars, cfgVars, fnVars, lookupVars, jobVars, widgetVars>>

\* the list request of key k settles
FetchSettles(k, ok) ==
    /\ IsFetching(cache[k])
    /\ cache' = [cache EXCEPT ![k] =
            IF ok
                THEN [data |-> server, stale |-> FALSE, state |-> "idle",
                      failureCount |-> 0]
            ELSE IF @.failureCount < QueryRetry /\ k \in ActiveKeys
                THEN [@ EXCEPT !.failureCount = @ + 1]
            ELSE [@ EXCEPT !.state = "error", !.failureCount = 0]]
    /\ UNCHANGED <<server, pageMounted, filters, searchTitle, showCreateForm,
                   mutations, currentPage, reqVars, cfgVars, fnVars, lookupVars, jobVars, widgetVars>>

\* the Add button shows or hides the create form
ToggleCreateForm ==
    /\ pageMounted
    /\ showCreateForm' = ~showCreateForm
    /\ UNCHANGED <<server, pageMounted, filters, searchTitle, cache, mutations,
                   currentPage, reqVars, cfgVars, fnVars, lookupVars, jobVars, widgetVars>>

\* handleCreate: createMutation.mutate(formData)
HandleCreate(id) ==
    /\ pageMounted /\ showCreateForm
    /\ Len(mutations) < MaxMutations
    /\ mutations' = Append(mutations, NewMutation("create", id, ""))
    /\ UNCHANGED <<server, pageMounted, filters, searchTitle, showCreateForm,
                   cache, currentPage, reqVars, cfgVars, fnVars, lookupVars, jobVars, widgetVars>>

\* WebhookEvents.handleToggleProcessed: updateMutation.mutate({ id, processed })
HandleToggleProcessed(id) ==
    /\ id \in Displayed
    /\ Len(mutations) < MaxMutations
    /\ mutations' = Append(mutations,
            NewMutation("update", id,
                        IF cache[filters].data[id] = "v1" THEN "v2" ELSE "v1"))
    /\ UNCHANGED <<server, pageMounted, filters, searchTitle, showCreateForm,
                   cache, currentPage, reqVars, cfgVars, fnVars, lookupVars, jobVars, widgetVars>>

\* handleDelete: confirm(...) and, when accepted, deleteMutation.mutate(id)
handleDeleteWithoutConfirm(id, accepted) ==
    mutations' = Append(mutations, NewMutation("delete", id, ""))

handleDelete(id, accepted) ==
    IF accepted
        THEN mutations' = Append(mutations, NewMutation("delete", id, ""))
    ELSE UNCHANGED mutations

HandleDelete(id, accepted) ==
    /\ id \in Displayed
    /\ Len(mutations) < MaxMutations
    /\ handleDelete(id, accepted)
    /\ UNCHANGED <<server, pageMounted, filters, searchTitle, showCreateForm,
                   cache, currentPage, reqVars, cfgVars, fnVars, lookupVars, jobVars, widgetVars>>

\* the request of mutation i settles: the server carried it out (ok) or the
\* request failed; onSuccess invalidates the list and closes the create form
MutationSettles(i, ok) ==
    /\ i \in DOMAIN mutations
    /\ mutations[i].state = "pending"
    /\ LET m == mutations[i] IN
       IF ok /\ ServerAccepts(m)
           THEN /\ server' = ServerApply(m)
                /\ mutations' = [mutations EXCEPT ![i].state = "success"]
                /\ cache' = invalidateQueries(cache, ActiveKeys)
                /\ lookups' = InvalidateLookups(lookups, videosMounted)
                /\ lookupQuery' = InvalidateLookupQuery(lookupQuery, videosMounted)
                /\ showCreateForm' =
                        IF m.kind = "create" THEN FALSE ELSE showCreateForm
       ELSE /\ mutations' = [mutations EXCEPT ![i] =
                    IF m.failureCount < MutationRetry
                        THEN [@ EXCEPT !.failureCount = @ + 1, !.sent = @ + 1]
                    ELSE [@ EXCEPT !.state = "error"]]
            /\ UNCHANGED <<server, cache, showCreateForm, lookups, lookupQuery>>
    /\ UNCHANGED <<pageMounted, filters, searchTitle, currentPage, videosMounted,
                   channels, reqVars, cfgVars, fnVars, jobVars, widgetVars>>

PageNext ==
    \/ MountPage
    \/ UnmountPage
    \/ \E t \in Titles : SetSearchTitle(t)
    \/ HandleSearch
    \/ Refetch
    \/ \E k \in FilterKeys : StaleTimeElapsed(k)
    \/ \E k \in FilterKeys, ok \in BOOLEAN : FetchSettles(k, ok)
    \/ ToggleCreateForm
    \/ \E id \in Ids : HandleCreate(id)
    \/ \E id \in Ids : HandleToggleProcessed(id)
    \/ \E id \in Ids, accepted \in BOOLEAN : HandleDelete(id, accepted)
    \/ \E i \in 1..MaxMutations, ok \in BOOLEAN : MutationSettles(i, ok)

\* browsing the list: searching and paging, no writes
PagingNext ==
    \/ MountPage
    \/ UnmountPage
    \/ \E t \in Titles : SetSearchTitle(t)
    \/ HandleSearch
    \/ \E page \in 1..MaxPage : HandlePageChange(page)
    \/ Refetch
    \/ \E k \in FilterKeys : StaleTimeElapsed(k)
    \/ \E k \in FilterKeys, ok \in BOOLEAN : FetchSettles(k, ok)

\* a configured application with no list page rendered yet
PageSpecInit == ReqIdle /\ CfgConfigured /\ PageInit /\ FnIdle /\ OthersIdle

SpecPage == PageSpecInit /\ [][PageNext]_vars

SpecPaging == PageSpecInit /\ [][PagingNext]_vars

(***************************************************************************)
(* Claims about the list pages (specification SpecPage)                    *)
(***************************************************************************)
\* C1: the delete endpoint is called for a row only after the user accepted
\* the confirmation prompt for that row: a declined prompt sends nothing and
\* an accepted one sends one DELETE with that row's id.
C1_DeleteOnlyAfterConfirm ==
    [][/\ \A id \in Ids :
            /\ HandleDelete(id, FALSE) =>
                    \A j \in Ids : DeleteRequests(j)' = DeleteRequests(j)
            /\ HandleDelete(id, TRUE) =>
                    \A j \in Ids : DeleteRequests(j)' =
                        DeleteRequests(j) + (IF j = id THEN 1 ELSE 0)
       /\ (\E j \in Ids : DeleteRequests(j)' # DeleteRequests(j)) =>
                \E id \in Ids : id \in Displayed /\ HandleDelete(id, TRUE)]_vars

C1_Witness ==
    /\ DeleteRequests(1) = 1
    /\ DeleteRequests(2) = 0
    /\ \E i \in DOMAIN mutations :
            mutations[i].kind = "delete" /\ mutations[i].id = 1

\* C2: a create, update or delete started by a user action sends at most one
\* HTTP request, also when that request fails.
C2_MutationsSentOnce ==
    \A i \in DOMAIN mutations : mutations[i].sent <= 1

C2_Witness ==
    \E i \in DOMAIN mutations :
        /\ mutations[i].state = "error"
        /\ mutations[i].sent = 1

\* C3: when a create, update or delete succeeds, every cached list of the
\* resource is invalidated and the list on display is fetched again; an
\* invalidated list that is displayed later is fetched, not served from the cache.
C3_MutationSuccessInvalidates ==
    [][/\ (\E i \in 1..MaxMutations :
                MutationSettles(i, TRUE) /\ mutations'[i].state = "success") =>
            /\ \A k \in FilterKeys : cache'[k].stale
            /\ \A k \in ActiveKeys : IsFetching(cache'[k])
       /\ ((MountPage \/ HandleSearch) /\ cache[filters'].stale) =>
            IsFetching(cache'[filters'])]_vars

C3_Witness ==
    /\ \E i \in DOMAIN mutations : mutations[i].state = "success"
    /\ pageMounted
    /\ IsFetching(cache[filters])
    /\ cache[filters].data # NoData
    /\ cache[filters].data # server
    /\ \A k \in FilterKeys : cache[k].stale

(***************************************************************************)
(* The Videos page while a write to the channels is under way              *)
(***************************************************************************)
\* the Videos route is opened; its list is loaded and the lookup query is
\* observed: a stale entry without a fetch in flight is fetched
MountVideos ==
    /\ ~videosMounted /\ ~pageMounted
    /\ Len(lookups) + PendingMutations < MaxLookups
    /\ videosMounted' = TRUE
    /\ IF lookupQuery.stale /\ ~IsFetching(lookupQuery)
          THEN /\ lookups' = StartLookup(lookups)
               /\ lookupQuery' = [lookupQuery EXCEPT !.state = "fetching"]
          ELSE UNCHANGED <<lookups, lookupQuery>>
    /\ UNCHANGED <<channels, reqVars, cfgVars, pageVars, fnVars, jobVars, widgetVars>>

\* navigation away: the page state is dropped, the runs in flight go on
UnmountVideos ==
    /\ videosMounted
    /\ videosMounted' = FALSE
    /\ channels' = NoData
    /\ lookups' = OrphanLookups(lookups)
    /\ UNCHANGED <<lookupQuery, reqVars, cfgVars, pageVars, fnVars, jobVars, widgetVars>>

\* the server answers the getChannelById requests of run i
LookupReads(i) ==
    /\ i \in DOMAIN lookups
    /\ lookups[i].phase = "sent"
    /\ lookups' = [lookups EXCEPT ![i] = [@ EXCEPT !.phase = "read", !.snapshot = server]]
    /\ UNCHANGED <<videosMounted, channels, lookupQuery, reqVars, cfgVars, pageVars,
                   fnVars, jobVars, widgetVars>>

\* run i ends: setChannels(channelMap); return channelMap. The query stores
\* what the run returns unless it cancelled the run
LookupSettles(i) ==
    /\ i \in DOMAIN lookups
    /\ lookups[i].phase = "read"
    /\ lookups' = [lookups EXCEPT ![i].phase = "settled"]
    /\ channels' = IF videosMounted /\ ~lookups[i].orphan
                       THEN lookups[i].snapshot ELSE channels
    /\ lookupQuery' =
            IF lookups[i].cancelled THEN lookupQuery
            ELSE [data |-> lookups[i].snapshot, stale |-> FALSE, state |-> "idle",
                  failureCount |-> 0]
    /\ UNCHANGED <<videosMounted, reqVars, cfgVars, pageVars, fnVars, jobVars, widgetVars>>

\* a delete or a create was confirmed on the Channels page and the user went
\* on to another route while its request is in flight
LookupInit ==
    /\ ReqIdle /\ CfgConfigured /\ FnIdle /\ LookupIdle /\ JobsIdle /\ WidgetIdle
    /\ server = [i \in Ids |-> IF i = 1 THEN "v1" ELSE "absent"]
    /\ pageMounted = FALSE
    /\ filters = Filters("")
    /\ searchTitle = ""
    /\ showCreateForm = FALSE
    /\ currentPage = 1
    /\ cache = [k \in FilterKeys |-> NewQuery]
    /\ mutations \in {<<NewMutation("delete", 1, "")>>, <<NewMutation("create", 2, "")>>}

LookupNext ==
    \/ MountVideos
    \/ UnmountVideos
    \/ \E i \in 1..MaxLookups : LookupReads(i)
    \/ \E i \in 1..MaxLookups : LookupSettles(i)
    \/ \E i \in 1..MaxMutations, ok \in BOOLEAN : MutationSettles(i, ok)

SpecLookup == LookupInit /\ [][LookupNext]_vars

(***************************************************************************)
(* Claims about superseded requests (specification SpecLookup)             *)
(***************************************************************************)
\* C18: once a newer request for the same key has started, the response of
\* the older request, arriving late, never replaces the data the page shows.
C18_SupersededResultIsIgnored ==
    [][\A i \in 1..MaxLookups :
        (LookupSettles(i) /\ lookups[i].cancelled /\ i < Len(lookups))
            => channels' = channels]_vars

(***************************************************************************)
(* A job-monitoring page and its auto-refresh                              *)
(***************************************************************************)
JobsInit ==
    /\ ReqIdle /\ CfgConfigured /\ PageInit /\ FnIdle /\ LookupIdle /\ WidgetIdle
    /\ jobsPage \in JobPages
    /\ jobsMounted = FALSE
    /\ statusFilter = ""
    /\ jobFilters = ""
    /\ jobRows \in [Ids -> JobStatuses]
    /\ jobsQuery = [k \in StatusOptions |-> NewJobsQuery]
    /\ timerRequests = 0
    /\ intervals = 0
    /\ awayIntervals = 0

\* the route is opened: the list query is observed
MountJobs(fresh) ==
    /\ ~jobsMounted
    /\ jobsMounted' = TRUE
    /\ jobsQuery' =
            IF jobsQuery[jobFilters].fetching
                    \/ (jobsQuery[jobFilters].data # NoData /\ fresh)
                THEN jobsQuery
            ELSE [jobsQuery EXCEPT ![jobFilters].fetching = TRUE]
    /\ UNCHANGED <<jobsPage, statusFilter, jobFilters, jobRows, timerRequests, intervals, awayIntervals,
                   reqVars, cfgVars, pageVars, fnVars, lookupVars, widgetVars>>

\* navigation away: the page state is dropped and both timers are cleared
UnmountJobs ==
    /\ jobsMounted
    /\ jobsMounted' = FALSE
    /\ statusFilter' = ""
    /\ jobFilters' = ""
    /\ UNCHANGED <<jobsPage, jobRows, jobsQuery, timerRequests, intervals, awayIntervals,
                   reqVars, cfgVars, pageVars, fnVars, lookupVars, widgetVars>>

\* handleStatusFilterChange: Jobs submits the new filters at once,
\* SponsorDetectionJobs only remembers the selection
HandleStatusFilterChange(status, fresh) ==
    /\ jobsMounted
    /\ statusFilter' = status
    /\ jobFilters' = IF jobsPage = "Jobs" THEN status ELSE jobFilters
    /\ jobsQuery' = ObserveJobs(jobsQuery, jobFilters, jobFilters', fresh)
    /\ UNCHANGED <<jobsPage, jobsMounted, jobRows, timerRequests, intervals, awayIntervals,
                   reqVars, cfgVars, pageVars, fnVars, lookupVars, widgetVars>>

\* SponsorDetectionJobs.handleSearch: the selection becomes the filters
HandleJobsSearch(fresh) ==
    /\ jobsMounted /\ jobsPage = "SponsorDetectionJobs"
    /\ jobFilters' = statusFilter
    /\ jobsQuery' = ObserveJobs(jobsQuery, jobFilters, jobFilters', fresh)
    /\ UNCHANGED <<jobsPage, jobsMounted, statusFilter, jobRows, timerRequests, intervals, awayIntervals,
                   reqVars, cfgVars, pageVars, fnVars, lookupVars, widgetVars>>

\* SponsorDetectionJobs.handleClearFilters
HandleClearFilters(fresh) ==
    /\ jobsMounted /\ jobsPage = "SponsorDetectionJobs"
    /\ statusFilter' = ""
    /\ jobFilters' = ""
    /\ jobsQuery' = ObserveJobs(jobsQuery, jobFilters, jobFilters', fresh)
    /\ UNCHANGED <<jobsPage, jobsMounted, jobRows, timerRequests, intervals, awayIntervals,
                   reqVars, cfgVars, pageVars, fnVars, lookupVars, widgetVars>>

\* the Refresh button: refetch()
JobsRefetch ==
    /\ jobsMounted
    /\ jobsQuery' = [jobsQuery EXCEPT ![jobFilters].fetching = TRUE]
    /\ UNCHANGED <<jobsPage, jobsMounted, statusFilter, jobFilters, jobRows,
                   timerRequests, intervals, awayIntervals, reqVars, cfgVars, pageVars, fnVars, lookupVars, widgetVars>>

\* the list request of key k settles; a failed one may be retried
JobsFetchSettles(k, ok, retried) ==
    /\ jobsQuery[k].fetching
    /\ jobsQuery' = [jobsQuery EXCEPT ![k] =
            IF ok THEN [data |-> LoadedRows(k), fetching |-> FALSE]
            ELSE [@ EXCEPT !.fetching = retried]]
    /\ UNCHANGED <<jobsPage, jobsMounted, statusFilter, jobFilters, jobRows,
                   timerRequests, intervals, awayIntervals, reqVars, cfgVars, pageVars, fnVars, lookupVars, widgetVars>>

\* the server ends a job
JobAdvances(id) ==
    /\ jobRows[id] \in NonTerminal
    /\ jobRows' = [jobRows EXCEPT ![id] = "completed"]
    /\ UNCHANGED <<jobsPage, jobsMounted, statusFilter, jobFilters, jobsQuery,
                   timerRequests, intervals, awayIntervals, reqVars, cfgVars, pageVars, fnVars, lookupVars, widgetVars>>

\* AUTO_REFRESH_INTERVAL (10 s) elapses: the timers that are armed fire
IntervalElapsed(both) ==
    /\ intervals < MaxIntervals
    /\ intervals' = intervals + 1
    /\ awayIntervals' = IF jobsMounted THEN awayIntervals ELSE awayIntervals + 1
    /\ timerRequests' = timerRequests + TimerRequests(both)
    /\ jobsQuery' =
            IF TimerRequests(both) > 0
                THEN [jobsQuery EXCEPT ![jobFilters].fetching = TRUE]
            ELSE jobsQuery
    /\ UNCHANGED <<jobsPage, jobsMounted, statusFilter, jobFilters, jobRows,
                   reqVars, cfgVars, pageVars, fnVars, lookupVars, widgetVars>>

JobsNext ==
    \/ \E fresh \in BOOLEAN : MountJobs(fresh)
    \/ UnmountJobs
    \/ \E status \in StatusOptions, fresh \in BOOLEAN :
            HandleStatusFilterChange(status, fresh)
    \/ \E fresh \in BOOLEAN : HandleJobsSearch(fresh)
    \/ \E fresh \in BOOLEAN : HandleClearFilters(fresh)
    \/ JobsRefetch
    \/ \E k \in StatusOptions, ok \in BOOLEAN, retried \in BOOLEAN :
            JobsFetchSettles(k, ok, retried)
    \/ \E id \in Ids : JobAdvances(id)
    \/ \E both \in BOOLEAN : IntervalElapsed(both)

SpecJobs == JobsInit /\ [][JobsNext]_vars

(***************************************************************************)
(* The Channels page with expandable rows                                  *)
(***************************************************************************)
DetailInit ==
    /\ ReqIdle /\ CfgConfigured /\ FnIdle /\ LookupIdle /\ JobsIdle /\ WidgetIdle
    /\ server = [i \in Ids |-> "v1"]
    /\ pageMounted = FALSE
    /\ filters = Filters("")
    /\ searchTitle = ""
    /\ showCreateForm = FALSE
    /\ currentPage = 1
    /\ cache = [k \in FilterKeys |-> NewQuery]
    /\ mutations = <<>>

\* a click on the expander of a row: the row is expanded or collapsed
ToggleExpanded(id) ==
    /\ pageMounted /\ id \in Displayed
    /\ id \notin expanded => expansions[id] < MaxExpansions
    /\ expansions' =
            IF id \in expanded THEN expansions
            ELSE [expansions EXCEPT ![id] = @ + 1]
    /\ RenderExpandedRows(IF id \in expanded THEN expanded \ {id}
                          ELSE expanded \cup {id},
                          enrichments, loadingEnrichments, sponsors, loadingSponsors)
    /\ UNCHANGED <<enrichQueued, evictions, tableVars, cacheVars,
                   reqVars, cfgVars, pageVars, fnVars, lookupVars, jobVars>>

\* getChannelEnrichment settles for fetchEnrichment(id): try, catch, finally
EnrichmentSettles(id, ok) ==
    /\ id \in loadingEnrichments
    /\ RenderExpandedRows(expanded,
                          [enrichments EXCEPT ![id] = IF ok THEN "loaded" ELSE "null"],
                          loadingEnrichments \ {id}, sponsors, loadingSponsors)
    /\ UNCHANGED <<enrichQueued, expansions, evictions, tableVars, cacheVars,
                   reqVars, cfgVars, pageVars, fnVars, lookupVars, jobVars>>

\* getChannelSponsors settles for fetchSponsors(id)
SponsorsSettles(id, ok) ==
    /\ id \in loadingSponsors
    /\ RenderExpandedRows(expanded, enrichments, loadingEnrichments,
                          [sponsors EXCEPT ![id] = IF ok THEN "items" ELSE "empty"],
                          loadingSponsors \ {id})
    /\ UNCHANGED <<enrichQueued, expansions, evictions, tableVars, cacheVars,
                   reqVars, cfgVars, pageVars, fnVars, lookupVars, jobVars>>

\* handleEnrich: after confirm(), enrichMutation.mutate(channelId)
HandleEnrich(id, confirmed) ==
    /\ pageMounted /\ id \in Displayed
    /\ id \notin enrichQueued
    /\ evictions[id] < MaxEvictions
    /\ enrichQueued' = IF confirmed THEN enrichQueued \cup {id} ELSE enrichQueued
    /\ UNCHANGED <<expanded, enrichments, loadingEnrichments, sponsors,
                   loadingSponsors, enrichmentRequests, sponsorsRequests,
                   expansions, evictions, tableVars, cacheVars,
                   reqVars, cfgVars, pageVars, fnVars, lookupVars, jobVars>>

\* enrichMutation settles: onSuccess deletes enrichments[channelId], and the
\* page renders again
EnrichSettles(id, ok) ==
    /\ id \in enrichQueued
    /\ enrichQueued' = enrichQueued \ {id}
    /\ evictions' = IF ok THEN [evictions EXCEPT ![id] = @ + 1] ELSE evictions
    /\ RenderExpandedRows(expanded,
                          IF ok THEN [enrichments EXCEPT ![id] = "undefined"]
                          ELSE enrichments,
                          loadingEnrichments, sponsors, loadingSponsors)
    /\ UNCHANGED <<expansions, tableVars, cacheVars,
                   reqVars, cfgVars, pageVars, fnVars, lookupVars, jobVars>>

DetailNext ==
    \/ MountPage
    \/ UnmountPage
    \/ \E k \in FilterKeys, ok \in BOOLEAN : FetchSettles(k, ok)
    \/ \E id \in Ids : ToggleExpanded(id)
    \/ \E id \in Ids, ok \in BOOLEAN : EnrichmentSettles(id, ok)
    \/ \E id \in Ids, ok \in BOOLEAN : SponsorsSettles(id, ok)
    \/ \E id \in Ids, confirmed \in BOOLEAN : HandleEnrich(id, confirmed)
    \/ \E id \in Ids, ok \in BOOLEAN : EnrichSettles(id, ok)

SpecDetail == DetailInit /\ [][DetailNext]_vars

(***************************************************************************)
(* Claims about expanded rows (specification SpecDetail)                   *)
(***************************************************************************)
\* C22, as stated: detail content is fetched on the first expansion of a row
\* and cached by row identity for the lifetime of the page view: no row has
\* more than one detail request of a kind in a page view, however often it
\* is collapsed and expanded.
C22_DetailFetchedOncePerView ==
    \A i \in Ids :
        /\ enrichmentRequests[i] <= 1
        /\ sponsorsRequests[i] <= 1

\* C22, as the code has it: nothing is requested for a row that was never
\* expanded, both detail requests are sent at its first expansion, the
\* sponsors are never requested again in the page view, and the enrichment
\* is requested again only after a queued enrichment of that row succeeded
\* and evicted it.
C22_DetailFetchedOncePerEviction ==
    \A i \in Ids :
        /\ (expansions[i] = 0) <=> (enrichmentRequests[i] = 0)
        /\ (expansions[i] = 0) <=> (sponsorsRequests[i] = 0)
        /\ sponsorsRequests[i] <= 1
        /\ enrichmentRequests[i] <= 1 + evictions[i]

\* a row whose detail is loaded is expanded for the second time
C22_Witness ==
    \E i \in Ids :
        /\ i \in expanded
        /\ expansions[i] = 2
        /\ enrichments[i] = "loaded" /\ sponsors[i] = "items"
        /\ enrichmentRequests[i] = 1 /\ sponsorsRequests[i] = 1

(***************************************************************************)
(* A table with a storage key: column visibility across reloads            *)
(***************************************************************************)
TableInit ==
    /\ ReqIdle /\ CfgConfigured /\ PageIdle /\ FnIdle /\ LookupIdle /\ JobsIdle
    /\ DetailIdle /\ SessionIdle /\ PagerIdle
    /\ tableMounted = FALSE
    /\ initialColumnVisibility \in VisibilityStates
    /\ columnVisibility = NoVisibility
    /\ localStorage = NoTableItem
    /\ chosen = NoVisibility

\* the table is rendered: useState(loadColumnVisibility())
MountTable ==
    /\ ~tableMounted
    /\ tableMounted' = TRUE
    /\ columnVisibility' = loadColumnVisibility(localStorage, initialColumnVisibility)
    /\ UNCHANGED <<initialColumnVisibility, localStorage, chosen, detailVars, cacheVars,
                   reqVars, cfgVars, pageVars, fnVars, lookupVars, jobVars>>

\* a reload of the application or navigation away: the state is dropped
UnmountTable ==
    /\ tableMounted
    /\ tableMounted' = FALSE
    /\ columnVisibility' = NoVisibility
    /\ UNCHANGED <<initialColumnVisibility, localStorage, chosen, detailVars, cacheVars,
                   reqVars, cfgVars, pageVars, fnVars, lookupVars, jobVars>>

\* handleColumnVisibilityChange(visibility)
handleColumnVisibilityChange(visibility) ==
    /\ columnVisibility' = SetState(columnVisibility, visibility)
    /\ localStorage' = SetItemStringified(visibility)

\* a click on a column button: column.toggleVisibility(!isVisible)
ToggleVisibility(c) ==
    /\ tableMounted
    /\ LET value == IF IsVisible(columnVisibility, c) THEN "false" ELSE "true"
       IN  /\ handleColumnVisibilityChange(ToggleUpdater(c, value))
           /\ chosen' = [chosen EXCEPT ![c] = value]
    /\ UNCHANGED <<tableMounted, initialColumnVisibility, detailVars, cacheVars,
                   reqVars, cfgVars, pageVars, fnVars, lookupVars, jobVars>>

TableNext ==
    \/ MountTable
    \/ UnmountTable
    \/ \E c \in Columns : ToggleVisibility(c)

SpecTable == TableInit /\ [][TableNext]_vars

(***************************************************************************)
(* Claims about column visibility (specification SpecTable)                *)
(***************************************************************************)
\* C25: a column-visibility choice of the user is persisted under the table's
\* storage key and survives reloads: whenever the table is rendered, every
\* column the user hid or showed is as the user last chose, whatever the
\* caller-supplied default map says.
C25_ChoiceSurvivesReload ==
    tableMounted =>
        \A c \in Columns :
            chosen[c] # "unset" =>
                (IsVisible(columnVisibility, c) <=> chosen[c] = "true")

(***************************************************************************)
(* Claims about auto-refresh (specification SpecJobs)                      *)
(***************************************************************************)
\* the submitted filters leave out the jobs that have not ended
FilterExcludesNonTerminal == jobFilters \notin ({""} \cup NonTerminal)

\* C19: auto-refresh stops when no loaded row is in a non-terminal state or
\* when the filter excludes the non-terminal states: the interval then
\* elapses without a periodic fetch being issued.
C19_AutoRefreshStops ==
    [][\A both \in BOOLEAN :
        (/\ IntervalElapsed(both)
         /\ RowsShown # NoData
         /\ (~HasNonTerminalRow \/ FilterExcludesNonTerminal))
            => timerRequests' = timerRequests]_vars

\* C20: while the page is shown and a loaded row is in a non-terminal state,
\* the list fetch is issued again every time the interval elapses.
C20_AutoRefreshRuns ==
    [][\A both \in BOOLEAN :
        (IntervalElapsed(both) /\ jobsMounted /\ HasNonTerminalRow)
            => timerRequests' > timerRequests]_vars

\* C21: the auto-refresh timers are cancelled on navigation away: an interval
\* that elapses after the job-monitoring page was unmounted issues no list
\* request and starts no fetch.
C21_NoTimerAfterUnmount ==
    [][\A both \in BOOLEAN :
        (IntervalElapsed(both) /\ ~jobsMounted)
            => (timerRequests' = timerRequests /\ jobsQuery' = jobsQuery)]_vars

\* the page auto-refreshed, was left, and an interval has elapsed since
C21_Witness ==
    /\ ~jobsMounted
    /\ timerRequests > 0
    /\ awayIntervals > 0

\* C30: while auto-refresh is active at most one list request is issued per
\* refresh interval: the page never runs two periodic refresh sources for the
\* same list at once.
C30_OneRequestPerInterval ==
    [][\A both \in BOOLEAN :
        IntervalElapsed(both) =>
            /\ timerRequests' <= timerRequests + 1
            /\ ~(QueryTimerOn /\ EffectTimerOn)]_vars

(***************************************************************************)
(* Claims about the query keys (specification SpecPaging)                  *)
(***************************************************************************)
\* the page submits filters: a search or a page change
SubmitsFilters == HandleSearch \/ \E page \in 1..MaxPage : HandlePageChange(page)

\* a request for key k is started in this step
NewFetch(k) == IsFetching(cache'[k]) /\ ~IsFetching(cache[k])

\* C17, as stated: identical filters map to the same cache entry, and every
\* change of a filter field, even of offset only, selects a distinct entry and
\* starts a new fetch.
C17_FilterChangeAlwaysFetches ==
    [][SubmitsFilters =>
        /\ (filters' = filters => cache' = cache)
        /\ (filters' # filters => NewFetch(filters'))]_vars

\* C17, as the code has it: identical filters map to the same cache entry and
\* start nothing; a change of any filter field, even of offset only, selects
\* the entry of the new filters, leaves every other entry alone, and starts a
\* fetch for it unless that entry holds a result younger than staleTime or
\* has a fetch in flight; a response is stored in the entry of its own key only.
C17_FilterKeysSelectEntries ==
    [][/\ SubmitsFilters =>
            /\ \A k \in FilterKeys \ {filters'} : cache'[k] = cache[k]
            /\ (filters' = filters => cache' = cache)
            /\ (filters' # filters =>
                    (NewFetch(filters') <=>
                        (cache[filters'].stale /\ ~IsFetching(cache[filters']))))
       /\ \A k \in FilterKeys :
            (\E ok \in BOOLEAN : FetchSettles(k, ok)) =>
                \A j \in FilterKeys \ {k} : cache'[j] = cache[j]]_vars

\* the rows of the table when the page shows the entry q under filters f
RowsOf(q, f) ==
    {i \in Ids : /\ q.data[i] \in {"v1", "v2"}
                 /\ (f.title = "" \/ f.title = RowTitle(i))
                 /\ f.offset = 0}

C24_PageChangeKeepsFilters ==
    [][\A p \in 1..MaxPage :
        HandlePageChange(p) =>
            /\ filters'.offset = (p - 1) * ITEMS_PER_PAGE
            /\ filters'.limit = filters.limit
            /\ filters'.title = filters.title
            /\ DOMAIN filters' = DOMAIN filters]_vars

\* page 2 of a search for "Acme"
C24_Witness ==
    /\ pageMounted
    /\ currentPage = 2
    /\ filters = [limit |-> ITEMS_PER_PAGE, offset |-> ITEMS_PER_PAGE, title |-> "Acme"]

\* page 1 is loaded and page 2, same title, is being fetched on its own
C17_Witness ==
    /\ pageMounted
    /\ filters.offset = ITEMS_PER_PAGE
    /\ IsFetching(cache[filters])
    /\ cache[[filters EXCEPT !.offset = 0]].data # NoData
    /\ ~IsFetching(cache[[filters EXCEPT !.offset = 0]])

(***************************************************************************)
(* Claims about APIClient.request (specification SpecReq)                  *)
(***************************************************************************)
GotResponse == reqPc = "done" /\ response.net = "response"

IsJsonResponse == Includes(response.contentType, "application/json")

\* C7: every non-2xx response makes the call fail with an APIClientError
\* that carries the response's status code, whatever its content-type or body.
C7_NonSuccessCarriesStatus ==
    (GotResponse /\ ~ResponseOk(response)) =>
        (result.kind = "APIClientError" /\ result.status = response.status)

GenericServerError ==
    <<"Server error (", StatusStr(response.status), " ",
      StatusText(response.status), "). The API may be unavailable.">>

\* the body starts with a doctype or an <html tag, or the content-type is text/html
LooksLikeHtml ==
    \/ (Trim(response.body) # <<>> /\ Head(Trim(response.body)) \in HtmlTokens)
    \/ Includes(response.contentType, "text/html")

\* C8: a non-success response that looks like an HTML document fails with the
\* generic "Server error (<status> <reason>). The API may be unavailable."
\* message, and the message never contains the raw HTML.
C8_HtmlErrorIsSanitized ==
    (GotResponse /\ ~ResponseOk(response) /\ LooksLikeHtml) =>
        /\ result.kind = "APIClientError"
        /\ result.message = GenericServerError
        /\ \A i \in DOMAIN result.message : result.message[i] \notin HtmlTokens

\* C9: when fetch rejects before any response is obtained, the call fails with
\* an APIClientError that carries a message and no status code.
C9_TransportErrorHasNoStatus ==
    (reqPc = "done" /\ response.net # "response") =>
        /\ result.kind = "APIClientError"
        /\ result.message # <<>>
        /\ result.status = NoStatus
        /\ result.detail = <<>>

C9_Witness ==
    /\ reqPc = "done"
    /\ response.net = "Error"
    /\ result = APIClientError(<<"Network error">>, NoStatus, <<>>)

\* C10: a success response other than 204 whose content-type is not JSON, or
\* whose body is not well-formed JSON, makes the call fail with an
\* APIClientError; nothing is returned to the caller.
C10_UndecodableSuccessFails ==
    (GotResponse /\ ResponseOk(response) /\ response.status # 204
        /\ (~IsJsonResponse \/ ~ParseJSON(response.body).ok)) =>
        /\ result.kind = "APIClientError"
        /\ result.value = JUndefined
        /\ (~IsJsonResponse =>
                /\ result.message = <<"Expected JSON response from API">>
                /\ result.status = response.status)

C10_Witness ==
    /\ GotResponse
    /\ response.status = 200
    /\ IsJsonResponse
    /\ StartsWith(Trim(response.body), "<html")
    /\ result.kind = "APIClientError"
    /\ result.value = JUndefined

\* C11: a successful response with status 204 resolves the call to "no value":
\* the promise is fulfilled with undefined, it is not rejected and the body is
\* not parsed, whatever the content-type and the body are.
C11_NoContentResolvesToNoValue ==
    (GotResponse /\ response.status = 204) => result = Resolved(JUndefined)

\* a 204 that announces JSON and carries a parsable document resolved to no value
C11_Witness ==
    /\ GotResponse
    /\ response.status = 204
    /\ IsJsonResponse
    /\ ParseJSON(response.body).ok
    /\ result.kind = "resolved"
    /\ result.value = JUndefined

(***************************************************************************)
(* Claims about normalization (specification SpecNorm)                     *)
(***************************************************************************)
ExactWrapperKeys == {{"String", "Valid"}, {"Time", "Valid"}}

\* C12: an object is collapsed only when its own keys are exactly
\* {String, Valid} or exactly {Time, Valid}: an object with any other key set,
\* such as {String, Valid, Extra}, is returned as an object with the same keys,
\* each property normalized recursively.
C12_CollapsesExactShapeOnly ==
    (/\ fnPc = "done"
     /\ jsonData.t = "obj"
     /\ DOMAIN jsonData.o \notin ExactWrapperKeys)
    => normalized =
         JObj([k \in DOMAIN jsonData.o |-> transformGoNullTypes(jsonData.o[k])])

\* a legacy-null wrapper occurs in v, at any depth
RECURSIVE HasWrapper(_)
HasWrapper(v) ==
    \/ isGoNullString(v)
    \/ isGoNullTime(v)
    \/ (v.t = "arr" /\ \E i \in DOMAIN v.a : HasWrapper(v.a[i]))
    \/ (v.t = "obj" /\ \E k \in DOMAIN v.o : HasWrapper(v.o[k]))

\* C13: the value a successful call returns contains no legacy-null wrapper at
\* any depth, and a body without any wrapper is returned unchanged.
C13_ResultHasNoWrapper ==
    fnPc = "done" =>
        /\ ~HasWrapper(normalized)
        /\ (~HasWrapper(jsonData) => normalized = jsonData)

(***************************************************************************)
(* Claims about request URLs (specification SpecUrl)                       *)
(***************************************************************************)
\* the query of the url: what follows the "?", and the names it carries
QueryOf(url) ==
    IF \E i \in DOMAIN url : url[i] = "?"
        THEN SubSeq(url, 1 + (CHOOSE i \in DOMAIN url : url[i] = "?"), Len(url))
    ELSE <<>>

QueryNames(q) == {q[i] : i \in {j \in DOMAIN q : j < Len(q) /\ q[j + 1] = "="}}

\* the text serialized for name k, "" if the pair reads "k="
QueryValue(q, k) ==
    LET i == CHOOSE j \in DOMAIN q : q[j] = k /\ j < Len(q) /\ q[j + 1] = "="
    IN IF i + 2 <= Len(q) /\ q[i + 2] # "&" THEN q[i + 2] ELSE ""

\* C14: the query string of a list request carries exactly the filter keys
\* whose value is not undefined, null or the empty string, each with its value;
\* the other keys are left out, none is serialized as empty, and a value such
\* as offset 0 is kept.
C14_QueryHasExactlyTheSetFilters ==
    fnPc = "done" =>
        LET q == QueryOf(callUrl)
            kept == {i \in DOMAIN callParams :
                        /\ callParams[i].value.t \notin {"undefined", "null"}
                        /\ ~(callParams[i].value.t = "str" /\ callParams[i].value.s = "")}
        IN /\ QueryNames(q) = {callParams[i].key : i \in kept}
           /\ \A k \in QueryNames(q) : QueryValue(q, k) # ""
           /\ \A i \in kept :
                callParams[i].value = JNum(0) => QueryValue(q, callParams[i].key) = "0"

\* filters { limit: 20, title: '' } or { offset: 0, title: null } were sent
C14_Witness ==
    /\ fnPc = "done"
    /\ Len(callParams) = 2
    /\ callParams[1].value \in {JNum(0), JNum(20)}
    /\ callParams[2].value \in {JStr(""), JNull, JUndefined}
    /\ QueryNames(QueryOf(callUrl)) = {callParams[1].key}

HasTrailingSlash(b) == b # <<>> /\ b[Len(b)] = "/"

\* C15: a client constructed with a base URL and one constructed with the same
\* base URL followed by a slash send every list request to the same URL.
C15_TrailingSlashMakesNoDifference ==
    (fnPc = "done" /\ ~HasTrailingSlash(callBaseURL)) =>
        callUrl = RequestUrl(APIClient(Config(callBaseURL \o <<"/">>, <<"k1">>)),
                             ListEndpoint(callEndpoint, callParams))

\* the request of a client built without the slash, whose twin has one
C15_Witness ==
    /\ fnPc = "done"
    /\ ~HasTrailingSlash(callBaseURL)
    /\ (callBaseURL \o <<"/">>) \in ClientBaseURLs
    /\ callUrl # <<>>
    /\ callParams # <<>>

\* the credentials a user connects with: no two share a field
Credentials ==
    { Config(<<"http:", "//a">>, <<"ka">>),
      Config(<<"http:", "//b">>, <<"kb">>),
      Config(<<"http:", "//c">>, <<"kc">>) }

(***************************************************************************)
(* Disconnecting and connecting with a list page and the module-level      *)
(* query cache                                                             *)
(***************************************************************************)
SessionInit ==
    /\ ReqIdle /\ CfgConfigured /\ PageInit /\ FnIdle /\ OthersIdle

\* the Channels route is opened: useQuery observes ['channels', filters]; a
\* fetch it starts calls getAPIClient().getChannels(filters)
OpenList ==
    /\ isConfigured /\ ~pageMounted
    /\ pageMounted' = TRUE
    /\ cache' = Observe(cache, filters)
    /\ inFlightAs' =
            IF IsFetching(cache'[filters]) /\ ~IsFetching(cache[filters])
                THEN [inFlightAs EXCEPT ![filters] = config]
            ELSE inFlightAs
    /\ UNCHANGED <<server, filters, searchTitle, showCreateForm, mutations,
                   currentPage, origin, pagerVars, detailVars, tableVars,
                   reqVars, cfgVars, fnVars, lookupVars, jobVars>>

\* navigation to another route
LeaveList ==
    /\ pageMounted
    /\ pageMounted' = FALSE
    /\ UNCHANGED <<server, filters, searchTitle, showCreateForm, mutations,
                   currentPage, cache, widgetVars,
                   reqVars, cfgVars, fnVars, lookupVars, jobVars>>

\* the list request in flight is answered: the cache stores the response
ListSettles(k) ==
    /\ IsFetching(cache[k])
    /\ cache' = [cache EXCEPT ![k] =
            [data |-> server, stale |-> FALSE, state |-> "idle", failureCount |-> 0]]
    /\ origin' = [origin EXCEPT ![k] = inFlightAs[k]]
    /\ UNCHANGED <<server, pageMounted, filters, searchTitle, showCreateForm,
                   mutations, currentPage, inFlightAs, pagerVars, detailVars,
                   tableVars,
                   reqVars, cfgVars, fnVars, lookupVars, jobVars>>

\* staleTime (30 s) has passed since the data of k was fetched; nothing
\* refetches it until it is observed anew
ListGoesStale(k) ==
    /\ ~cache[k].stale
    /\ ~pageMounted
    /\ cache' = [cache EXCEPT ![k].stale = TRUE]
    /\ UNCHANGED <<server, pageMounted, filters, searchTitle, showCreateForm,
                   mutations, currentPage, widgetVars,
                   reqVars, cfgVars, fnVars, lookupVars, jobVars>>

\* Layout.handleLogout confirmed: clearConfig(); ProtectedRoutes renders the
\* form instead of the pages; the queryClient of App.tsx is not touched
Disconnect ==
    /\ isConfigured
    /\ clearConfig
    /\ pageMounted' = FALSE
    /\ UNCHANGED <<formBaseURL, formApiKey, formError, mounted, accessed, sentKey,
                   server, filters, searchTitle, showCreateForm, mutations,
                   currentPage, cache, widgetVars,
                   reqVars, fnVars, lookupVars, jobVars>>

\* the form submits a valid credential: APIProvider.configure(c)
Connect(c) ==
    /\ ~isConfigured
    /\ sessionStorage' = saveAPIConfig(sessionStorage, c, "none").store
    /\ config' = c
    /\ apiClientInstance' = APIClient(c)
    /\ isConfigured' = TRUE
    /\ UNCHANGED <<formBaseURL, formApiKey, formError, mounted, accessed, sentKey,
                   pageVars, widgetVars, reqVars, fnVars, lookupVars, jobVars>>

SessionNext ==
    \/ OpenList
    \/ LeaveList
    \/ \E k \in FilterKeys : ListSettles(k)
    \/ \E k \in FilterKeys : ListGoesStale(k)
    \/ Disconnect
    \/ \E c \in Credentials : Connect(c)

SpecSession == SessionInit /\ [][SessionNext]_vars

(***************************************************************************)
(* Claims about the cache across credentials (specification SpecSession)   *)
(***************************************************************************)
\* C26: no page shows list data that was fetched under a previous
\* credential: every list displayed comes from a response obtained with the
\* currently configured credential.
C26_DisplayedDataIsOfCurrentCredential ==
    (isConfigured /\ pageMounted /\ cache[filters].data # NoData)
        => origin[filters] = config

(***************************************************************************)
(* A list page over a list of more than one page: paging, creating and     *)
(* deleting                                                                *)
(***************************************************************************)
\* the list response for an offset: { items, total }
ListResponse(offset) ==
    LET rest == IF serverTotal > offset THEN serverTotal - offset ELSE 0
    IN  [loaded |-> TRUE,
         items |-> IF rest > ITEMS_PER_PAGE THEN ITEMS_PER_PAGE ELSE rest,
         total |-> serverTotal]

\* the page renders the table and <Pagination> only in the branch
\* data && data.items.length > 0
TableRendered == pageMounted /\ listResult.loaded /\ listResult.items > 0

\* Pagination: the pages of totalItems rows, itemsPerPage to a page
TotalPages(totalItems) == (totalItems + ITEMS_PER_PAGE - 1) \div ITEMS_PER_PAGE

\* Pagination renders nothing when totalItems <= itemsPerPage
PaginationShown(totalItems) == totalItems > ITEMS_PER_PAGE

\* <Pagination totalItems={data.total} ...> below the table
PaginationRendered == TableRendered /\ PaginationShown(listResult.total)

PagerInit ==
    /\ ReqIdle /\ CfgConfigured /\ PageIdle /\ FnIdle /\ LookupIdle /\ JobsIdle
    /\ DetailIdle /\ TableIdle /\ SessionIdle
    /\ serverTotal \in 0..MaxTotal
    /\ listResult = NoListResult
    /\ listFetching = FALSE

\* the route is opened and the list query fetches
PagerOpen ==
    /\ ~pageMounted
    /\ pageMounted' = TRUE
    /\ listFetching' = TRUE
    /\ UNCHANGED <<server, filters, searchTitle, showCreateForm, mutations,
                   currentPage, cache, serverTotal, listResult,
                   detailVars, tableVars, sessionVars,
                   reqVars, cfgVars, fnVars, lookupVars, jobVars>>

\* the list request settles with the page of the current filters
PagerSettles ==
    /\ pageMounted /\ listFetching
    /\ listFetching' = FALSE
    /\ listResult' = ListResponse(filters.offset)
    /\ UNCHANGED <<serverTotal, pageVars, detailVars, tableVars, sessionVars,
                   reqVars, cfgVars, fnVars, lookupVars, jobVars>>

\* a click in the pagination controls: handlePageChange(page); the query of
\* the new key has no data until it is fetched
PagerPageChange(page) ==
    /\ PaginationRendered
    /\ page \in 1..TotalPages(listResult.total)
    /\ page # currentPage
    /\ currentPage' = page
    /\ filters' = [filters EXCEPT !.offset = (page - 1) * ITEMS_PER_PAGE]
    /\ listResult' = NoListResult
    /\ listFetching' = TRUE
    /\ UNCHANGED <<server, pageMounted, searchTitle, showCreateForm, mutations,
                   cache, serverTotal, detailVars, tableVars, sessionVars,
                   reqVars, cfgVars, fnVars, lookupVars, jobVars>>

\* handleSearch: page 1 of the list
PagerSearch ==
    /\ pageMounted
    /\ currentPage' = 1
    /\ filters' = Filters(searchTitle)
    /\ listResult' = IF filters' = filters THEN listResult ELSE NoListResult
    /\ listFetching' = (listFetching \/ filters' # filters)
    /\ UNCHANGED <<server, pageMounted, searchTitle, showCreateForm, mutations,
                   cache, serverTotal, detailVars, tableVars, sessionVars,
                   reqVars, cfgVars, fnVars, lookupVars, jobVars>>

\* createMutation succeeds: the server holds one row more, onSuccess
\* invalidates the list and the observed query is fetched again
PagerCreated ==
    /\ pageMounted
    /\ serverTotal < MaxTotal
    /\ serverTotal' = serverTotal + 1
    /\ listFetching' = TRUE
    /\ UNCHANGED <<listResult, pageVars, detailVars, tableVars, sessionVars,
                   reqVars, cfgVars, fnVars, lookupVars, jobVars>>

\* deleteMutation of a row of the table succeeds
PagerDeleted ==
    /\ TableRendered
    /\ serverTotal > filters.offset
    /\ serverTotal' = serverTotal - 1
    /\ listFetching' = TRUE
    /\ UNCHANGED <<listResult, pageVars, detailVars, tableVars, sessionVars,
                   reqVars, cfgVars, fnVars, lookupVars, jobVars>>

PagerNext ==
    \/ PagerOpen
    \/ PagerSettles
    \/ \E page \in 1..TotalPages(MaxTotal) : PagerPageChange(page)
    \/ PagerSearch
    \/ PagerCreated
    \/ PagerDeleted

SpecPager == PagerInit /\ [][PagerNext]_vars

(***************************************************************************)
(* Claims about the offset (specification SpecPager)                       *)
(***************************************************************************)
\* C29: after any sequence of searches, page changes, creates and deletes the
\* requested offset stays within the latest result (offset < total whenever
\* total > 0): the user is never on an empty page beyond the last page
\* without pagination controls.
C29_OffsetWithinTotal ==
    (pageMounted /\ listResult.loaded /\ listResult.total > 0)
        => /\ filters.offset < listResult.total
           /\ (listResult.items = 0 => PaginationRendered)

(***************************************************************************)
(* Calls of the storage module (lib/storage.ts)                            *)
(***************************************************************************)
StoreInit == ReqIdle /\ CfgInit /\ PageIdle /\ FnIdle /\ OthersIdle

\* saveAPIConfig(c); fault says which setItem throws, if any
SaveCall(c, fault) ==
    /\ sessionStorage' = saveAPIConfig(sessionStorage, c, fault).store
    /\ UNCHANGED <<formBaseURL, formApiKey, formError, config, isConfigured,
                   mounted, apiClientInstance, accessed, sentKey,
                   reqVars, pageVars, fnVars, lookupVars, jobVars, widgetVars>>

\* clearAPIConfig()
ClearCall ==
    /\ sessionStorage' = clearAPIConfig(sessionStorage)
    /\ UNCHANGED <<formBaseURL, formApiKey, formError, config, isConfigured,
                   mounted, apiClientInstance, accessed, sentKey,
                   reqVars, pageVars, fnVars, lookupVars, jobVars, widgetVars>>

\* loadAPIConfig()
LoadCall(getItemThrows) ==
    /\ loaded' = loadAPIConfigCall(sessionStorage, getItemThrows)
    /\ UNCHANGED <<fnPc, jsonData, normalized, callBaseURL, callEndpoint,
                   callParams, callUrl, storageFault, reqVars, cfgVars, pageVars,
                   lookupVars, jobVars, widgetVars>>

StoreNext ==
    \/ \E c \in Credentials, fault \in StorageFaults : SaveCall(c, fault)
    \/ ClearCall
    \/ \E getItemThrows \in BOOLEAN : LoadCall(getItemThrows)

SpecStore == StoreInit /\ [][StoreNext]_vars

(***************************************************************************)
(* Claims about the stored credential (specification SpecStore)            *)
(***************************************************************************)
\* C27: after any sequence of save calls, a save that fails after its first
\* storage write included, storage never holds the base URL of one
\* credential with the API key of another: a load returns null or a
\* credential exactly as it was passed to one save.
C27_StoredCredentialIsWhole ==
    /\ \A c1, c2 \in Credentials :
            (/\ sessionStorage[API_BASE_URL] = encode(c1.baseURL)
             /\ sessionStorage[API_KEY] = encode(c2.apiKey)) => c1 = c2
    /\ loaded.called => (loaded.value = NoConfig \/ loaded.value \in Credentials)

(***************************************************************************)
(* Claims about loadAPIConfig (specification SpecLoad)                     *)
(***************************************************************************)
\* both keys are present in storage and both stored texts can be decoded
BothPresentAndDecodable ==
    /\ ~storageFault
    /\ \A k \in STORAGE_KEYS :
            sessionStorage[k] # NoItem /\ Decodable(sessionStorage[k])

\* C16: load() never raises; it returns the decoded config when both keys are
\* present and decodable, and null in every other case, a failing storage
\* access or a failing decoding included.
C16_LoadReturnsConfigOrNull ==
    loaded.called =>
        /\ ~loaded.threw
        /\ IF BothPresentAndDecodable
              THEN loaded.value = Config(decode(sessionStorage[API_BASE_URL]),
                                         decode(sessionStorage[API_KEY]))
              ELSE loaded.value = NoConfig

(***************************************************************************)
(* Claims about the credential life cycle (specification SpecCfg)          *)
(***************************************************************************)
\* both fields non-empty and baseURL an absolute http: or https: URL
FormIsValidCredential ==
    /\ formBaseURL # <<>>
    /\ formApiKey # <<>>
    /\ ParseURL(formBaseURL).ok
    /\ ParseURL(formBaseURL).protocol \in {"http:", "https:"}

\* C4: a credential is saved and the client constructed only from a form whose
\* fields are both non-empty and whose baseURL is an absolute HTTP(S) URL;
\* submitting any other form shows an error, saves nothing and sends nothing.
C4_OnlyValidCredentialIsSaved ==
    [][((\E fault \in StorageFaults : HandleSubmit(fault)) /\ ~FormIsValidCredential) =>
        /\ formError' # <<>>
        /\ UNCHANGED <<sessionStorage, config, isConfigured, apiClientInstance,
                       sentKey>>]_vars

\* C5: once the user has disconnected, the credential is neither in storage
\* nor held by the client, and no request is sent while disconnected.
C5_DisconnectDestroysCredential ==
    [][/\ (\E accepted \in {TRUE} : HandleLogout(accepted)) =>
            /\ sessionStorage' = EmptyStorage
            /\ config' = NoConfig
            /\ apiClientInstance' = NoClient
       /\ (~isConfigured /\ ~isConfigured') => sentKey' = sentKey]_vars

\* C28: whenever the shell renders a page (isConfigured is true) the client
\* singleton has been initialized with the credential held in the context,
\* and a page's call of the accessor returns that client instead of raising
\* the not-initialized error.
C28_ConfiguredMeansInitialized ==
    /\ [](isConfigured =>
            /\ ~config.isNull
            /\ apiClientInstance = APIClient(config))
    /\ [][PageRequest =>
            /\ accessed'.kind = "returned"
            /\ accessed'.client = APIClient(config)]_vars

\* after a reload the stored credential was restored and a page used the client
C28_Witness ==
    /\ isConfigured
    /\ accessed.kind = "returned"
    /\ accessed.client = APIClient(config)
    /\ sentKey = config.apiKey

\* C6: getAPIClient() throws when no client has been constructed and never
\* returns null.
C6_AccessorFailsFast ==
    accessed.kind # "none" =>
        /\ accessed.client.isNull <=> accessed.kind = "throws"
        /\ accessed.kind = "returned" => ~accessed.client.isNull

C6_Witness ==
    /\ accessed.kind = "throws"
    /\ apiClientInstance.isNull
    /\ ~isConfigured

====
